---- MODULE Spec2Model ----
(***************************************************************************)
(* A model of the cercopes dialog engine (crate cercopes_dialog): the      *)
(* obligation/topic ledger, the conversation state, the goal behaviours,   *)
(* the template expander and DialogManager::step_conversation.             *)
(*                                                                         *)
(* Randomness (shuffles, the lull roll, hash iteration order) is modelled  *)
(* as nondeterminism: every operator that consumes the rng returns the SET *)
(* of outcomes it can produce.  A panic of the Rust code (indexing a map   *)
(* with an absent key) is the outcome kind "Panic".                        *)
(***************************************************************************)
EXTENDS Integers, Sequences, FiniteSets, TLC

VARIABLES
    expander,       \* DialogManager.expander: expander_nodes and its three reverse indices
    conversation,   \* the Conversation being stepped
    ret,            \* what the last step_conversation call returned ("Panic": it unwound)
    trace,          \* observation of the last step_conversation call (attempt order, lull roll)
    pushlog,        \* observation: per participant and obligation, the TTL it had when last
                    \* pushed and the timestep() calls it has seen since
    other           \* a second Conversation of the same DialogManager and what its last
                    \* step_conversation call returned; Absent when there is only one

vars == <<expander, conversation, ret, trace, pushlog, other>>

\* ------------------------------------------------------------------ bounds

MaxHistory == 4     \* step_conversation is not called once history holds this many moves
MaxTTL == 2         \* largest time_to_live the enumerated callbacks and frames push
MaxMoves == 3       \* historical moves a goal under observation is shown
MaxDepth == 4       \* forward-chain recursion depth after which the stack is exhausted

\* ------------------------------------------------------------- small helpers

Max(a, b) == IF a >= b THEN a ELSE b

\* i32::MIN, the urgency merge_historical_obligations seeds a fresh entry with
I32Min == -2147483647 - 1

EmptyMap == [x \in {} |-> 0]

MapPut(m, k, v) == [x \in DOMAIN m \cup {k} |-> IF x = k THEN v ELSE m[x]]

MapRemove(m, ks) == [x \in DOMAIN m \ ks |-> m[x]]

SeqToSet(s) == {s[i] : i \in DOMAIN s}

\* all orderings of the finite set S, as sequences without repetition
Perms(S) ==
    {p \in [1..Cardinality(S) -> S] : \A i, j \in 1..Cardinality(S) : p[i] = p[j] => i = j}

\* ------------------------------------------------------------------ Speaker

Person0 == "Person0"
Person1 == "Person1"
Speakers == {Person0, Person1}

\* impl Not for Speaker
Not(s) == IF s = Person0 THEN Person1 ELSE Person0

\* ------------------------------------------------------ Conversation getters

get_speaker_state(conv, s) == IF s = Person0 THEN conv.person0 ELSE conv.person1

get_my_state(conv) == get_speaker_state(conv, conv.speaker)

\* a can_be_introduced that looks at the introduced set only
can_be_introduced_ignoring_addressed(ts, topic) == topic \notin ts.introduced

\* TopicState::can_be_addressed / needs_addressing / can_be_introduced
can_be_addressed(ts, topic) == topic \notin ts.addressed

needs_addressing(ts, topic) == topic \in ts.introduced /\ can_be_addressed(ts, topic)

can_be_introduced(ts, topic) == topic \notin ts.introduced /\ can_be_addressed(ts, topic)

\* ------------------------------------------------------------- Precondition
\* A precondition is a caller-supplied closure over the conversation; the model
\* carries the closures of the example content pack as tagged records.

PreAlways == [kind |-> "always"]
PreNever == [kind |-> "never"]
PreCanIntroduce(t) == [kind |-> "can_be_introduced", topic |-> t]
PreObligedOrCanAddress(m, t) == [kind |-> "obliged_or_can_address", move |-> m, topic |-> t]

\* Precondition::check
check(pre, conv) ==
    CASE pre.kind = "always" -> TRUE
      [] pre.kind = "never" -> FALSE
      [] pre.kind = "can_be_introduced" -> can_be_introduced(conv.topic_state, pre.topic)
      [] pre.kind = "obliged_or_can_address" ->
            \/ pre.move \in DOMAIN get_my_state(conv).pushed_obligations
            \/ can_be_addressed(conv.topic_state, pre.topic)

\* ------------------------------------------------------------------ Expander

AllPartChoices(node) == UNION {SeqToSet(node.parts[i]) : i \in DOMAIN node.parts}

\* what the loops of Expander::build visit: an index, a key of it, and the
\* node that declares the key
IndexEntries(nodes) ==
    UNION {({<<"addressing_move">>} \X nodes[n].dialog_moves \X {n})
           \cup ({<<"addressing_topic">>} \X nodes[n].addressed_topics \X {n})
           \cup ({<<"apart_of">>} \X AllPartChoices(nodes[n]) \X {n}) :
           n \in DOMAIN nodes}

RECURSIVE build_loop(_, _)
\* the loops of Expander::build over the entries still to visit, each
\* `entry(key).or_insert_with(make_hashset).insert(i)`
build_loop(ex, todo) ==
    IF todo = {} THEN ex
    ELSE LET e == CHOOSE x \in todo : TRUE
             index == e[1][1]
             key == e[2]
         IN  build_loop(
                [ex EXCEPT ![index] =
                    MapPut(@, key, (IF key \in DOMAIN @ THEN @[key] ELSE {}) \cup {e[3]})],
                todo \ {e})

\* a build that keeps the indices it finds and adds to them
build_without_clear(ex) == build_loop(ex, IndexEntries(ex.expander_nodes))

\* Expander::build: the three reverse indices are cleared and filled again from
\* expander_nodes.
build(ex) ==
    build_loop([ex EXCEPT !.addressing_move = EmptyMap, !.addressing_topic = EmptyMap,
                          !.apart_of = EmptyMap],
               IndexEntries(ex.expander_nodes))

\* Expander::new
ExpanderNew(nodes) ==
    build([expander_nodes |-> nodes, addressing_move |-> EmptyMap,
           addressing_topic |-> EmptyMap, apart_of |-> EmptyMap])

\* DialogManager::insert_move_node / remove_move_node and Extend::extend, which
\* hand on to Expander::insert / remove / extend: the map operation, then build
insert_move_node(ex, expander_node, move_node) ==
    build([ex EXCEPT !.expander_nodes = MapPut(@, expander_node, move_node)])

remove_move_node(ex, expander_node) ==
    build([ex EXCEPT !.expander_nodes = MapRemove(@, {expander_node})])

extend(ex, nodes) == build([ex EXCEPT !.expander_nodes = nodes @@ @])

Tree(n, parts) == [expander_node |-> n, parts |-> parts]

ResOk(v) == [kind |-> "ok", val |-> v]
ResNoNodes == [kind |-> "NoNodesSatisfyPreconditions"]
ResPanic == [kind |-> "Panic"]
ResOverflow == [kind |-> "StackOverflow"]
ResNoExpanderForMove(m) == [kind |-> "NoExpanderForMove", item |-> m]
ResNoExpanderForTopic(t) == [kind |-> "NoExpanderForTopic", item |-> t]

RECURSIVE forward_parts(_, _, _, _, _, _)
\* a forward chain that takes an alternative without looking at its precondition
forward_parts_unchecked(ex, conv, n, k, skip, fuel) ==
    LET parts == ex.expander_nodes[n].parts IN
    IF k > Len(parts) THEN {ResOk(<<>>)}
    ELSE
        LET part == parts[k]
            part_ids == {i \in DOMAIN part : i # skip}
            chosen(i) ==
                IF fuel = 0 THEN {ResOverflow}
                ELSE UNION {
                    IF sub.kind # "ok" THEN {sub}
                    ELSE {IF rest.kind = "ok"
                            THEN ResOk(<<Tree(part[i], sub.val)>> \o rest.val)
                            ELSE rest :
                          rest \in forward_parts(ex, conv, n, k + 1, skip, fuel)} :
                    sub \in forward_parts(ex, conv, part[i], 1, 0, fuel - 1)}
        IN  UNION {chosen(i) : i \in part_ids}
            \cup (IF part_ids = {} THEN {ResNoNodes} ELSE {})

\* Expander::forward_chain on the node `n`, parts k.. of it: the set of results the
\* shuffles can produce, each Ok(<<subtrees>>) or an error.  skip = 0 is None;
\* skip = j is Some(j - 1), compared with the alternative's index inside each part.
forward_parts(ex, conv, n, k, skip, fuel) ==
    LET parts == ex.expander_nodes[n].parts IN
    IF k > Len(parts) THEN {ResOk(<<>>)}
    ELSE
        LET part == parts[k]
            part_ids == {i \in DOMAIN part : i # skip}
            missing == {i \in part_ids : part[i] \notin DOMAIN ex.expander_nodes}
            eligible == {i \in part_ids \ missing :
                            check(ex.expander_nodes[part[i]].precondition, conv)}
            \* the first alternative, in shuffled order, whose precondition holds
            chosen(i) ==
                IF fuel = 0 THEN {ResOverflow}
                ELSE UNION {
                    IF sub.kind # "ok" THEN {sub}
                    ELSE {IF rest.kind = "ok"
                            THEN ResOk(<<Tree(part[i], sub.val)>> \o rest.val)
                            ELSE rest :
                          rest \in forward_parts(ex, conv, n, k + 1, skip, fuel)} :
                    sub \in forward_parts(ex, conv, part[i], 1, 0, fuel - 1)}
        IN  UNION {chosen(i) : i \in eligible}
            \cup (IF missing # {} THEN {ResPanic} ELSE {})
            \cup (IF missing = {} /\ eligible = {} THEN {ResNoNodes} ELSE {})

\* Expander::forward_chain
forward_chain(ex, conv, n, skip) == forward_parts(ex, conv, n, 1, skip, MaxDepth)

\* an is_top_level that takes every node for top-level
is_top_level_always(ex, n) == TRUE

\* Expander::is_top_level
is_top_level(ex, n) ==
    IF n \in DOMAIN ex.apart_of THEN ex.apart_of[n] = {} ELSE TRUE

\* an expand_satisfying that gives up at the first candidate whose chain fails
expand_satisfying_giving_up(ex, conv, satisfying) ==
    LET live == {n \in satisfying : check(ex.expander_nodes[n].precondition, conv)}
        outs(n) == forward_chain(ex, conv, n, 0)
    IN  UNION {{ResOk(Tree(n, r.val)) : r \in {o \in outs(n) : o.kind = "ok"}} : n \in live}
        \cup {r \in UNION {outs(n) : n \in live} : r.kind # "ok"}
        \cup (IF live = {} THEN {ResNoNodes} ELSE {})

\* Expander::expand_satisfying: the candidates are shuffled; the first whose
\* precondition holds and whose forward chain is_ok() is the tree.
expand_satisfying(ex, conv, satisfying) ==
    LET live == {n \in satisfying : check(ex.expander_nodes[n].precondition, conv)}
        outs(n) == forward_chain(ex, conv, n, 0)
        aborts == {"Panic", "StackOverflow"}
    IN  UNION {{ResOk(Tree(n, r.val)) : r \in {o \in outs(n) : o.kind = "ok"}} : n \in live}
        \cup {r \in UNION {outs(n) : n \in live} : r.kind \in aborts}
        \cup (IF \A n \in live : \E r \in outs(n) : r.kind = "NoNodesSatisfyPreconditions"
                THEN {ResNoNodes} ELSE {})

\* Expander::expand_dialog_move.  Indexing addressing_move with a move no node
\* declares panics (HashMap's Index); build never leaves an empty entry, so the
\* is_empty() branch is taken only if an entry could be empty.
expand_dialog_move(ex, conv, dialog_move) ==
    IF dialog_move \notin DOMAIN ex.addressing_move THEN {ResPanic}
    ELSE IF ex.addressing_move[dialog_move] = {} THEN {ResNoExpanderForMove(dialog_move)}
    ELSE expand_satisfying(ex, conv, ex.addressing_move[dialog_move])

\* Expander::expand_topic
expand_topic(ex, conv, topic) ==
    IF topic \notin DOMAIN ex.addressing_topic THEN {ResPanic}
    ELSE IF ex.addressing_topic[topic] = {} THEN {ResNoExpanderForTopic(topic)}
    ELSE expand_satisfying(ex, conv, ex.addressing_topic[topic])

\* Vec::insert(part_id, child), part_id counted from 1
InsertAt(s, k, e) == SubSeq(s, 1, k - 1) \o <<e>> \o SubSeq(s, k, Len(s))

\* a backward chain that keeps the bare tree when no parent can embed it
backward_chain_lenient(ex, conv, tree) ==
    IF is_top_level(ex, tree.expander_node) THEN {ResOk(tree)}
    ELSE
        LET parents == ex.apart_of[tree.expander_node]
            live == {p \in parents : check(ex.expander_nodes[p].precondition, conv)}
            part_id(p) ==
                CHOOSE k \in DOMAIN ex.expander_nodes[p].parts :
                    /\ tree.expander_node \in SeqToSet(ex.expander_nodes[p].parts[k])
                    /\ \A j \in 1..(k - 1) :
                            tree.expander_node \notin SeqToSet(ex.expander_nodes[p].parts[j])
            wrap(p) ==
                {IF r.kind = "ok"
                    THEN ResOk(Tree(p, InsertAt(r.val, part_id(p), tree)))
                    ELSE r :
                 r \in forward_chain(ex, conv, p, part_id(p))}
        IN  IF live = {} THEN {ResOk(tree)} ELSE UNION {wrap(p) : p \in live}

\* Expander::backward_chain: a top-level tree is kept; otherwise the first recorded
\* parent (in the index's iteration order, which is arbitrary) whose precondition
\* holds wraps the tree, in the first of its parts that lists the node.
backward_chain(ex, conv, tree) ==
    IF is_top_level(ex, tree.expander_node) THEN {ResOk(tree)}
    ELSE
        LET parents == ex.apart_of[tree.expander_node]
            missing == parents \ DOMAIN ex.expander_nodes
            live == {p \in parents \ missing : check(ex.expander_nodes[p].precondition, conv)}
            part_of(p) ==
                {k \in DOMAIN ex.expander_nodes[p].parts :
                    tree.expander_node \in SeqToSet(ex.expander_nodes[p].parts[k])}
            \* a live parent that lists the node wraps it; one that does not is passed over
            wrapping == {p \in live : part_of(p) # {}}
            part_id(p) == CHOOSE k \in part_of(p) : \A j \in part_of(p) : k <= j
            wrap(p) ==
                {IF r.kind = "ok"
                    THEN ResOk(Tree(p, InsertAt(r.val, part_id(p), tree)))
                    ELSE r :
                 r \in forward_chain(ex, conv, p, part_id(p))}
        IN  UNION {wrap(p) : p \in wrapping}
            \cup (IF missing # {} THEN {ResPanic} ELSE {})
            \cup (IF missing = {} /\ wrapping = {} THEN {ResNoNodes} ELSE {})

\* ------------------------------------------------------- HistoricalMove parts

Obligation(u, ttl, n) == [urgency |-> u, time_to_live |-> ttl, times_pushed |-> n]

\* HistoricalObligations::default
EmptyObligations == [pushed |-> EmptyMap, addressed |-> {}]

\* PushedObligationMetadata::push
MetaPush(meta) == [meta EXCEPT !.times_pushed = @ + 1]

\* HistoricalObligations::push
HistoricalPush(hobl, dialog_move, urgency, time_to_live) ==
    LET entry == IF dialog_move \in DOMAIN hobl.pushed
                    THEN hobl.pushed[dialog_move]
                    ELSE Obligation(urgency, time_to_live, 0)
        pushed == MetaPush(entry)
    IN  [hobl EXCEPT !.pushed = MapPut(@, dialog_move,
            [pushed EXCEPT !.urgency = Max(@, urgency),
                           !.time_to_live = Max(@, time_to_live)])]

\* HistoricalMove::get_speaker_obligations, as a field name
ObligationsField(s) == IF s = Person0 THEN "person0_obligations" ELSE "person1_obligations"

\* HistoricalMove::was_move_satisfied
was_move_satisfied(hmove, dialog_move) ==
    \/ dialog_move \in hmove.person0_obligations.addressed
    \/ dialog_move \in hmove.person1_obligations.addressed

\* The edit-callbacks of the example content pack, as a list of operations on the
\* historical move under construction.
EditPushOthers(m, u, ttl) ==
    [op |-> "push_others", move |-> m, urgency |-> u, time_to_live |-> ttl]
EditAddressMine(m) == [op |-> "address_mine", move |-> m]
\* hmove.get_my_obligations().push(..): the speaker takes an obligation on
EditPushMine(m, u, ttl) ==
    [op |-> "push_mine", move |-> m, urgency |-> u, time_to_live |-> ttl]
EditIntroduce(t) == [op |-> "introduce", topic |-> t]
EditAddressTopic(t) == [op |-> "address_topic", topic |-> t]
\* a callback statement that overrides what the tree did so far: it takes the
\* topic out of the move's addressed set
EditRetractTopic(t) == [op |-> "retract_topic", topic |-> t]

\* one statement of an edit-callback
ApplyEditOp(hmove, e) ==
    LET mine == ObligationsField(hmove.speaker)
        others == ObligationsField(Not(hmove.speaker))
    IN  CASE e.op = "push_others" ->
                [hmove EXCEPT ![others] = HistoricalPush(@, e.move, e.urgency, e.time_to_live)]
          [] e.op = "push_mine" ->
                [hmove EXCEPT ![mine] = HistoricalPush(@, e.move, e.urgency, e.time_to_live)]
          [] e.op = "address_mine" ->
                [hmove EXCEPT ![mine].addressed = @ \cup {e.move}]
          [] e.op = "introduce" ->
                [hmove EXCEPT !.topic_state.introduced = @ \cup {e.topic}]
          [] e.op = "address_topic" ->
                [hmove EXCEPT !.topic_state.addressed = @ \cup {e.topic}]
          [] e.op = "retract_topic" ->
                [hmove EXCEPT !.topic_state.addressed = @ \ {e.topic}]

RECURSIVE ApplyEdit(_, _)
\* EditHistoricalMove: the callback's statements in order (<<>> is None)
ApplyEdit(hmove, edit) ==
    IF edit = <<>> THEN hmove
    ELSE ApplyEdit(ApplyEditOp(hmove, Head(edit)), Tail(edit))

FmtConst(text) == [kind |-> "const", text |-> text]
FmtJoin(prefix, suffix) == [kind |-> "join", prefix |-> prefix, suffix |-> suffix]
FmtFirst(prefix, suffix) == [kind |-> "first", prefix |-> prefix, suffix |-> suffix]
FmtChoose(prefix, words, suffix) ==
    [kind |-> "choose", prefix |-> prefix, words |-> words, suffix |-> suffix]
FmtFavMusic == [kind |-> "fav_music"]

RECURSIVE Join(_)
\* Vec<String>::join("")
Join(strs) == IF Len(strs) = 0 THEN "" ELSE Head(strs) \o Join(Tail(strs))

\* MoveNodeFormatter: the formatters of the example content pack; the set of
\* strings the formatter can return (WORDS.choose(rng) picks any of its words)
Format(fmt, conv, parts) ==
    CASE fmt.kind = "const" -> {fmt.text}
      [] fmt.kind = "join" -> {fmt.prefix \o Join(parts) \o fmt.suffix}
      [] fmt.kind = "first" -> {fmt.prefix \o parts[1] \o fmt.suffix}
      [] fmt.kind = "choose" -> {fmt.prefix \o w \o fmt.suffix : w \in fmt.words}
      [] fmt.kind = "fav_music" -> {get_my_state(conv).character.fav_music}

RECURSIVE create_utterance(_, _, _), parts_utterances(_, _, _, _)
\* ExpansionTree::create_utterance: the utterances the formatters can give
create_utterance(ex, conv, tree) ==
    UNION {Format(ex.expander_nodes[tree.expander_node].formatter, conv, parts) :
            parts \in parts_utterances(ex, conv, tree.parts, 1)}

\* the collected utterances of parts k.. of a tree, in order
parts_utterances(ex, conv, parts, k) ==
    IF k > Len(parts) THEN {<<>>}
    ELSE {<<u>> \o rest : u \in create_utterance(ex, conv, parts[k]),
                          rest \in parts_utterances(ex, conv, parts, k + 1)}

RECURSIVE tree_create_historical(_, _, _, _), parts_create_historical(_, _, _, _, _)
\* a construction that handles a node before its parts
tree_create_historical_pre_order(ex, conv, tree, historical_move) ==
    LET move_node == ex.expander_nodes[tree.expander_node]
        mine == ObligationsField(conv.speaker)
        declared ==
            [historical_move EXCEPT
                ![mine].addressed = @ \cup move_node.dialog_moves,
                !.topic_state.addressed = @ \cup move_node.addressed_topics]
    IN  parts_create_historical(ex, conv, tree.parts, 1,
                                ApplyEdit(declared, move_node.edit_historical_move))

\* a construction that records the declared moves but not the declared topics
tree_create_historical_moves_only(ex, conv, tree, historical_move) ==
    LET move_node == ex.expander_nodes[tree.expander_node]
        after_parts == parts_create_historical(ex, conv, tree.parts, 1, historical_move)
        mine == ObligationsField(conv.speaker)
        declared == [after_parts EXCEPT ![mine].addressed = @ \cup move_node.dialog_moves]
    IN  ApplyEdit(declared, move_node.edit_historical_move)

\* ExpansionTree::create_historical: the parts first, then this node's declared
\* moves and topics, then its edit-callback.
tree_create_historical(ex, conv, tree, historical_move) ==
    LET move_node == ex.expander_nodes[tree.expander_node]
        after_parts == parts_create_historical(ex, conv, tree.parts, 1, historical_move)
        mine == ObligationsField(conv.speaker)
        declared ==
            [after_parts EXCEPT
                ![mine].addressed = @ \cup move_node.dialog_moves,
                !.topic_state.addressed = @ \cup move_node.addressed_topics]
    IN  ApplyEdit(declared, move_node.edit_historical_move)

parts_create_historical(ex, conv, parts, k, historical_move) ==
    IF k > Len(parts) THEN historical_move
    ELSE parts_create_historical(ex, conv, parts, k + 1,
            tree_create_historical(ex, conv, parts[k], historical_move))

\* Expander::create_historical: one historical move per utterance the
\* formatters can give
create_historical(ex, conv, tree) ==
    {tree_create_historical(ex, conv, tree,
        [utterance |-> u,
         speaker |-> conv.speaker,
         person0_obligations |-> EmptyObligations,
         person1_obligations |-> EmptyObligations,
         topic_state |-> [introduced |-> {}, addressed |-> {}]]) :
     u \in create_utterance(ex, conv, tree)}

\* Expander::address_tree; the tree the move was built from is kept beside it
\* for observation.
address_tree(ex, conv, tree) ==
    UNION {IF r.kind = "ok"
            THEN {ResOk([hmove |-> h, tree |-> r.val]) : h \in create_historical(ex, conv, r.val)}
            ELSE {r} :
           r \in backward_chain(ex, conv, tree)}

\* Expander::address_dialog_move
address_dialog_move(ex, conv, dialog_move) ==
    UNION {IF t.kind = "ok" THEN address_tree(ex, conv, t.val) ELSE {t} :
            t \in expand_dialog_move(ex, conv, dialog_move)}

\* Expander::address_topic
address_topic(ex, conv, topic) ==
    UNION {IF t.kind = "ok" THEN address_tree(ex, conv, t.val) ELSE {t} :
            t \in expand_topic(ex, conv, topic)}

\* ---------------------------------------------------------------------- goals

\* GoalPursuer::Any
AnyPursuer == "Any"

GoalMove(pursuer, dialog_move) == [pursuer |-> pursuer, dialog_move |-> dialog_move]

\* a pursuer that agrees with every speaker
agrees_with_anyone(pursuer, s) == TRUE

\* GoalPursuer::agrees_with
agrees_with(pursuer, s) == IF pursuer # AnyPursuer THEN pursuer = s ELSE TRUE

\* PerformGoalMove::new, RepeatGoalMove::new and the other goal constructors
PerformGoalMove(gm) == [kind |-> "perform", goal_move |-> gm, satisfied |-> FALSE]
RepeatGoalMove(gm, max_reps) ==
    [kind |-> "repeat", goal_move |-> gm, reps |-> 0, max_reps |-> max_reps]
GoalSequence(sequence) == [kind |-> "sequence", sequence |-> sequence]
GoalEagerSequence(sequence) == [kind |-> "eager", sequence |-> sequence]
ConcatGoals(g1, g2) == [kind |-> "concat", g1 |-> g1, g2 |-> g2]

\* A GoalState of the caller's own: it proposes nothing, is never satisfied, and
\* its made_move keeps what the conversation passed to it looked like.
ObserverGoal == [kind |-> "observer", saw |-> <<>>]
Observation(state) ==
    [goals |-> state.goals,
     history |-> state.history,
     topic_state |-> state.topic_state,
     person0 |-> state.person0.pushed_obligations,
     person1 |-> state.person1.pushed_obligations]

RECURSIVE is_satisfied(_)
\* GoalState::is_satisfied
is_satisfied(g) ==
    CASE g.kind = "perform" -> g.satisfied
      [] g.kind = "repeat" -> g.reps >= g.max_reps
      [] g.kind \in {"sequence", "eager"} -> g.sequence = <<>>
      [] g.kind = "concat" -> is_satisfied(g.g1) /\ is_satisfied(g.g2)
      [] g.kind = "observer" -> FALSE

RECURSIVE next_step(_)
\* GoalState::next_step: <<>> is None, <<gm>> is Some(gm)
next_step(g) ==
    CASE g.kind \in {"perform", "repeat"} ->
            IF is_satisfied(g) THEN <<>> ELSE <<g.goal_move>>
      [] g.kind \in {"sequence", "eager"} ->
            IF g.sequence = <<>> THEN <<>> ELSE <<Head(g.sequence)>>
      [] g.kind = "concat" ->
            IF next_step(g.g1) # <<>> THEN next_step(g.g1) ELSE next_step(g.g2)
      [] g.kind = "observer" -> <<>>

\* a test that forgets who the pursuer is
Performed_by_anyone(gm, history) == was_move_satisfied(history, gm.dialog_move)

\* the goal-move test shared by every made_move
Performed(gm, history) ==
    agrees_with(gm.pursuer, history.speaker) /\ was_move_satisfied(history, gm.dialog_move)

\* a loop that stops at the first entry it removes
RemovePerformed_first_only(sequence, history) ==
    LET hits == {i \in DOMAIN sequence : Performed(sequence[i], history)}
        k == CHOOSE i \in hits : \A j \in hits : i <= j
    IN  IF hits = {} THEN sequence
        ELSE SubSeq(sequence, 1, k - 1) \o SubSeq(sequence, k + 1, Len(sequence))

RECURSIVE RemovePerformed(_, _)
\* the reverse index loop of GoalSequence::made_move: every entry the move
\* performed is removed, the others keep their order
RemovePerformed(sequence, history) ==
    IF sequence = <<>> THEN <<>>
    ELSE IF Performed(sequence[Len(sequence)], history)
        THEN RemovePerformed(SubSeq(sequence, 1, Len(sequence) - 1), history)
        ELSE Append(RemovePerformed(SubSeq(sequence, 1, Len(sequence) - 1), history),
                    sequence[Len(sequence)])

RECURSIVE made_move(_, _)
\* a made_move whose conjunction hands the move to its first goal only
made_move_first_only(g, history) ==
    CASE g.kind = "perform" ->
            IF agrees_with(g.goal_move.pursuer, history.speaker)
                THEN [g EXCEPT !.satisfied =
                        @ \/ was_move_satisfied(history, g.goal_move.dialog_move)]
                ELSE g
      [] g.kind = "repeat" ->
            IF Performed(g.goal_move, history) THEN [g EXCEPT !.reps = @ + 1] ELSE g
      [] g.kind = "sequence" ->
            [g EXCEPT !.sequence = RemovePerformed(@, history)]
      [] g.kind = "eager" ->
            IF g.sequence # <<>> /\ Performed(g.sequence[Len(g.sequence)], history)
                THEN [g EXCEPT !.sequence = <<>>]
                ELSE [g EXCEPT !.sequence = RemovePerformed(@, history)]
      [] g.kind = "concat" ->
            [g EXCEPT !.g1 = made_move(g.g1, history)]

\* a made_move whose single-move goal takes the last move's verdict for its flag
made_move_forgetting(g, history) ==
    CASE g.kind = "perform" ->
            IF agrees_with(g.goal_move.pursuer, history.speaker)
                THEN [g EXCEPT !.satisfied = was_move_satisfied(history, g.goal_move.dialog_move)]
                ELSE g
      [] g.kind = "repeat" ->
            IF Performed(g.goal_move, history) THEN [g EXCEPT !.reps = @ + 1] ELSE g
      [] g.kind = "sequence" ->
            [g EXCEPT !.sequence = RemovePerformed(@, history)]
      [] g.kind = "eager" ->
            IF g.sequence # <<>> /\ Performed(g.sequence[Len(g.sequence)], history)
                THEN [g EXCEPT !.sequence = <<>>]
                ELSE [g EXCEPT !.sequence = RemovePerformed(@, history)]
      [] g.kind = "concat" ->
            [g EXCEPT !.g1 = made_move(g.g1, history), !.g2 = made_move(g.g2, history)]

\* a made_move whose eager sequence has no special case for its last entry
made_move_not_eager(g, history) ==
    CASE g.kind = "perform" ->
            IF agrees_with(g.goal_move.pursuer, history.speaker)
                THEN [g EXCEPT !.satisfied =
                        @ \/ was_move_satisfied(history, g.goal_move.dialog_move)]
                ELSE g
      [] g.kind = "repeat" ->
            IF Performed(g.goal_move, history) THEN [g EXCEPT !.reps = @ + 1] ELSE g
      [] g.kind \in {"sequence", "eager"} ->
            [g EXCEPT !.sequence = RemovePerformed(@, history)]
      [] g.kind = "concat" ->
            [g EXCEPT !.g1 = made_move(g.g1, history), !.g2 = made_move(g.g2, history)]

\* GoalState::made_move
made_move(g, history) ==
    CASE g.kind = "perform" ->
            IF agrees_with(g.goal_move.pursuer, history.speaker)
                THEN [g EXCEPT !.satisfied =
                        @ \/ was_move_satisfied(history, g.goal_move.dialog_move)]
                ELSE g
      [] g.kind = "repeat" ->
            IF Performed(g.goal_move, history) THEN [g EXCEPT !.reps = @ + 1] ELSE g
      [] g.kind = "sequence" ->
            [g EXCEPT !.sequence = RemovePerformed(@, history)]
      [] g.kind = "eager" ->
            IF g.sequence # <<>> /\ Performed(g.sequence[Len(g.sequence)], history)
                THEN [g EXCEPT !.sequence = <<>>]
                ELSE [g EXCEPT !.sequence = RemovePerformed(@, history)]
      [] g.kind = "concat" ->
            [g EXCEPT !.g1 = made_move(g.g1, history), !.g2 = made_move(g.g2, history)]

\* --------------------------------------------------------------- the ledger

\* a timestep that expires an obligation one call early
MetaTimestep_early(meta) ==
    IF meta.time_to_live >= 2
        THEN [meta |-> [meta EXCEPT !.time_to_live = @ - 1], expired |-> FALSE]
        ELSE [meta |-> meta, expired |-> TRUE]

\* PushedObligationMetadata::timestep: TRUE in `expired` is the bool it returns
MetaTimestep(meta) ==
    IF meta.time_to_live >= 1
        THEN [meta |-> [meta EXCEPT !.time_to_live = @ - 1], expired |-> FALSE]
        ELSE [meta |-> meta, expired |-> TRUE]

\* ParticipantState::new
ParticipantStateNew(character) ==
    [topics |-> EmptyMap, pushed_obligations |-> EmptyMap, character |-> character]

\* a timestep that leaves the expired obligations in the map
ParticipantTimestep_keeping(ps) ==
    [ps EXCEPT !.pushed_obligations = [m \in DOMAIN @ |-> MetaTimestep(@[m]).meta]]

\* ParticipantState::timestep
ParticipantTimestep(ps) ==
    LET remove == {m \in DOMAIN ps.pushed_obligations :
                        MetaTimestep(ps.pushed_obligations[m]).expired}
    IN  [ps EXCEPT !.pushed_obligations =
            [m \in DOMAIN @ \ remove |-> MetaTimestep(@[m]).meta]]

\* a merge in which the later push's time_to_live replaces the stored one
MergeMeta_overwriting(original_meta, meta) ==
    [urgency |-> Max(original_meta.urgency, meta.urgency),
     time_to_live |-> meta.time_to_live,
     times_pushed |-> original_meta.times_pushed + meta.times_pushed]

\* the body of the loop over hobl.pushed in merge_historical_obligations
MergeMeta(original_meta, meta) ==
    [urgency |-> Max(original_meta.urgency, meta.urgency),
     time_to_live |-> Max(original_meta.time_to_live, meta.time_to_live),
     times_pushed |-> original_meta.times_pushed + meta.times_pushed]

\* a merge that leaves the addressed obligations in the map
merge_historical_obligations_keeping(ps, hobl) ==
    LET kept == ps.pushed_obligations
    IN  [ps EXCEPT !.pushed_obligations =
            [m \in DOMAIN kept \cup DOMAIN hobl.pushed |->
                IF m \notin DOMAIN hobl.pushed THEN kept[m]
                ELSE MergeMeta(IF m \in DOMAIN kept THEN kept[m]
                                                    ELSE Obligation(I32Min, 0, 0),
                               hobl.pushed[m])]]

\* ParticipantState::merge_historical_obligations
merge_historical_obligations(ps, hobl) ==
    LET kept == MapRemove(ps.pushed_obligations, hobl.addressed)
    IN  [ps EXCEPT !.pushed_obligations =
            [m \in DOMAIN kept \cup DOMAIN hobl.pushed |->
                IF m \notin DOMAIN hobl.pushed THEN kept[m]
                ELSE MergeMeta(IF m \in DOMAIN kept THEN kept[m]
                                                    ELSE Obligation(I32Min, 0, 0),
                               hobl.pushed[m])]]

\* ------------------------------------------------------------- Conversation

\* Conversation::new, before the frames run
ConversationNew(initiator, lull_continue_chance, person0, person1) ==
    [initiator |-> initiator,
     speaker |-> initiator,
     person0 |-> ParticipantStateNew(person0),
     person1 |-> ParticipantStateNew(person1),
     topic_state |-> [introduced |-> {}, addressed |-> {}],
     history |-> <<>>,
     goals |-> <<>>,
     done |-> FALSE,
     lull_continue_chance |-> lull_continue_chance]

\* Conversation::timestep
timestep(conv) ==
    [conv EXCEPT !.person0 = ParticipantTimestep(@), !.person1 = ParticipantTimestep(@)]

SpeakerField(s) == IF s = Person0 THEN "person0" ELSE "person1"

TopicMeta(ps, topic) ==
    IF topic \in DOMAIN ps.topics THEN ps.topics[topic]
    ELSE [times_introduced |-> 0, times_addressed |-> 0]

\* Conversation::introduce_topic, for every topic of the set
introduce_topics(conv, topics) ==
    [conv EXCEPT
        !.topic_state.introduced = @ \cup topics,
        ![SpeakerField(conv.speaker)].topics =
            [t \in DOMAIN @ \cup topics |->
                IF t \in topics
                    THEN [TopicMeta(get_my_state(conv), t) EXCEPT !.times_introduced = @ + 1]
                    ELSE @[t]]]

\* Conversation::address_topic, for every topic of the set
address_topics(conv, topics) ==
    [conv EXCEPT
        !.topic_state.addressed = @ \cup topics,
        ![SpeakerField(conv.speaker)].topics =
            [t \in DOMAIN @ \cup topics |->
                IF t \in topics
                    THEN [TopicMeta(get_my_state(conv), t) EXCEPT !.times_addressed = @ + 1]
                    ELSE @[t]]]

\* goal.state.made_move(&self, &hmove), dispatched on the goal's type
notify(state, g, history) ==
    IF g.kind = "observer"
        THEN [g EXCEPT !.saw = <<Observation(state)>>]
        ELSE made_move(g, history)

\* an update that notifies the goals last, with the goal list attached
update_for_move_notifying_last(conv, hmove) ==
    LET introduced == introduce_topics(conv, hmove.topic_state.introduced)
        addressed == address_topics(introduced, hmove.topic_state.addressed)
        merged == [addressed EXCEPT
            !.person0 = merge_historical_obligations(@, hmove.person0_obligations),
            !.person1 = merge_historical_obligations(@, hmove.person1_obligations),
            !.history = Append(@, hmove)]
    IN  [merged EXCEPT
            !.goals = [i \in DOMAIN conv.goals |-> notify(merged, conv.goals[i], hmove)]]

\* Conversation::update_for_move
update_for_move(conv, hmove) ==
    LET detached == [conv EXCEPT !.goals = <<>>]
        goals == [i \in DOMAIN conv.goals |-> notify(detached, conv.goals[i], hmove)]
        notified == [conv EXCEPT !.goals = goals]
        introduced == introduce_topics(notified, hmove.topic_state.introduced)
        addressed == address_topics(introduced, hmove.topic_state.addressed)
    IN  [addressed EXCEPT
            !.person0 = merge_historical_obligations(@, hmove.person0_obligations),
            !.person1 = merge_historical_obligations(@, hmove.person1_obligations),
            !.history = Append(@, hmove)]

\* Conversation::get_next_speaker_topics: every order the shuffle can give
get_next_speaker_topics(conv) ==
    Perms(conv.topic_state.introduced \ conv.topic_state.addressed)

\* a comparator that breaks ties by ascending TTL
SortedBefore_ascending_ttl(l, r) ==
    \/ l.urgency < r.urgency
    \/ l.urgency = r.urgency /\ l.time_to_live <= r.time_to_live

\* the comparator of sort_unstable_by: ascending urgency, then descending TTL
SortedBefore(l, r) ==
    \/ l.urgency < r.urgency
    \/ l.urgency = r.urgency /\ l.time_to_live >= r.time_to_live

RECURSIVE Flatten(_)
Flatten(ss) == IF ss = <<>> THEN <<>> ELSE Head(ss) \o Flatten(Tail(ss))

\* Conversation::get_next_speaker_moves: the goal proposals (shuffled) followed by
\* the speaker's pushed obligations (sorted); every list the shuffle and the
\* unstable sort can give.  Each entry carries, beside the dialog move, where it
\* came from.
get_next_speaker_moves(conv) ==
    LET pushed == get_my_state(conv).pushed_obligations
        sorted == {p \in Perms(DOMAIN pushed) :
                    \A i, j \in DOMAIN p : i < j => SortedBefore(pushed[p[i]], pushed[p[j]])}
        proposed == SelectSeq(
            Flatten([i \in DOMAIN conv.goals |-> next_step(conv.goals[i])]),
            LAMBDA gm : agrees_with(gm.pursuer, conv.speaker))
        shuffled == {[i \in DOMAIN proposed |-> proposed[q[i]]] : q \in Perms(DOMAIN proposed)}
        goal_entry(gm) ==
            [dialog_move |-> gm.dialog_move, source |-> "goal", urgency |-> 0]
        obligation_entry(m) ==
            [dialog_move |-> m, source |-> "obligation", urgency |-> pushed[m].urgency]
    IN  {[i \in DOMAIN g |-> goal_entry(g[i])] \o [i \in DOMAIN o |-> obligation_entry(o[i])] :
            g \in shuffled, o \in sorted}

\* ------------------------------------------------------------ DialogManager

NoErr == [kind |-> "none"]

\* One observed realization attempt of a step.
Attempt(speaker, entry, result) ==
    [speaker |-> speaker, source |-> entry.source, item |-> entry.item,
     urgency |-> entry.urgency, result |-> result]

TopicEntry(t) == [what |-> "topic", item |-> t, source |-> "topic", urgency |-> 0]
MoveEntry(e) ==
    [what |-> "move", item |-> e.dialog_move, source |-> e.source, urgency |-> e.urgency]
LullEntry(m) == [what |-> "move", item |-> m, source |-> "lull", urgency |-> 0]

\* an attempt that hands every error of the expander on, this one included
attempt_propagating(ex, conv, entry) ==
    {IF r.kind = "ok"
        THEN [status |-> "true", conv |-> update_for_move(conv, r.val.hmove),
              made |-> <<r.val>>, err |-> NoErr]
        ELSE [status |-> "error", conv |-> conv, made |-> <<>>, err |-> r] :
     r \in IF entry.what = "topic"
            THEN address_topic(ex, conv, entry.item)
            ELSE address_dialog_move(ex, conv, entry.item)}

\* an attempt that records the move or topic as raised before it is known
\* whether a tree can be built for it
attempt_marking_first(ex, conv, entry) ==
    {CASE r.kind = "ok" ->
            [status |-> "true", conv |-> update_for_move(conv, r.val.hmove),
             made |-> <<r.val>>, err |-> NoErr]
       [] r.kind = "NoNodesSatisfyPreconditions" ->
            [status |-> "false",
             conv |-> [conv EXCEPT !.topic_state.introduced = @ \cup {entry.item}],
             made |-> <<>>, err |-> NoErr]
       [] OTHER ->
            [status |-> "error", conv |-> conv, made |-> <<>>, err |-> r] :
     r \in IF entry.what = "topic"
            THEN address_topic(ex, conv, entry.item)
            ELSE address_dialog_move(ex, conv, entry.item)}

\* DialogManager::attempt_to_make_move / attempt_to_address_topic: Ok(true) after
\* update_for_move, Ok(false) for NoNodesSatisfyPreconditions, any other error as it is.
attempt(ex, conv, entry) ==
    {CASE r.kind = "ok" ->
            [status |-> "true", conv |-> update_for_move(conv, r.val.hmove),
             made |-> <<r.val>>, err |-> NoErr]
       [] r.kind = "NoNodesSatisfyPreconditions" ->
            [status |-> "false", conv |-> conv, made |-> <<>>, err |-> NoErr]
       [] OTHER ->
            [status |-> "error", conv |-> conv, made |-> <<>>, err |-> r] :
     r \in IF entry.what = "topic"
            THEN address_topic(ex, conv, entry.item)
            ELSE address_dialog_move(ex, conv, entry.item)}

attempt_to_make_move(ex, conv, dialog_move) == attempt(ex, conv, LullEntry(dialog_move))

RECURSIVE try_each(_, _, _, _, _)
\* a for loop of attempt_to_speak over `entries` from the k-th on: it returns at the
\* first attempt that is Ok(true) or an error; `attempts` lists the attempts made
try_each(ex, conv, entries, k, attempts) ==
    IF k > Len(entries)
    THEN {[status |-> "false", conv |-> conv, made |-> <<>>, err |-> NoErr,
           attempts |-> attempts]}
    ELSE UNION {
            IF o.status = "false"
            THEN try_each(ex, o.conv, entries, k + 1,
                          Append(attempts, Attempt(conv.speaker, entries[k], "false")))
            ELSE {[status |-> o.status, conv |-> o.conv, made |-> o.made, err |-> o.err,
                   attempts |-> Append(attempts, Attempt(conv.speaker, entries[k], o.status))]} :
            o \in attempt(ex, conv, entries[k])}

Reverse(s) == [i \in DOMAIN s |-> s[Len(s) + 1 - i]]

\* an attempt to speak that takes the move list in the order it is listed
attempt_to_speak_in_order(ex, conv, attempts) ==
    UNION {
        UNION {
            IF t.status # "false" THEN {t}
            ELSE UNION {
                    try_each(ex, t.conv, [i \in DOMAIN moves |-> MoveEntry(moves[i])],
                             1, t.attempts) :
                    moves \in get_next_speaker_moves(t.conv)} :
            t \in try_each(ex, conv, [i \in DOMAIN topics |-> TopicEntry(topics[i])],
                           1, attempts)} :
        topics \in get_next_speaker_topics(conv)}

\* DialogManager::attempt_to_speak: the pending topics, then the speaker's moves in
\* reverse of the order get_next_speaker_moves lists them
attempt_to_speak(ex, conv, attempts) ==
    UNION {
        UNION {
            IF t.status # "false" THEN {t}
            ELSE UNION {
                    try_each(ex, t.conv, [i \in DOMAIN moves |-> MoveEntry(Reverse(moves)[i])],
                             1, t.attempts) :
                    moves \in get_next_speaker_moves(t.conv)} :
            t \in try_each(ex, conv, [i \in DOMAIN topics |-> TopicEntry(topics[i])],
                           1, attempts)} :
        topics \in get_next_speaker_topics(conv)}

\* Bernoulli::sample on a chance given in percent: 0 never, 100 always
Sample(chance) == {b \in BOOLEAN : (b => chance > 0) /\ (~b => chance < 100)}

Flip(conv) == [conv EXCEPT !.speaker = Not(@)]

StepTrace(kind, start, attempts, lull, made) ==
    [kind |-> kind, start_speaker |-> start, attempts |-> attempts, lull |-> lull,
     made |-> made]

RetOk == [kind |-> "Ok"]

Outcome(r, conv, tr) == [ret |-> r, conv |-> conv, trace |-> tr]

\* the speaking half of a step: `first || { flip; second }`, then the flip on success
SpeakOrOther(ex, conv) ==
    UNION {
        IF a.status # "false" THEN {a}
        ELSE attempt_to_speak(ex, Flip(a.conv), a.attempts) :
        a \in attempt_to_speak(ex, conv, <<>>)}

\* a lull branch that gives the lull move to the step-start speaker first
LullMove_from_start(ex, conv, lull_move, attempts) ==
    UNION {
        IF a.status # "false" THEN {[a EXCEPT !.conv = Flip(@)]}
        ELSE try_each(ex, a.conv, <<LullEntry(lull_move)>>, 1, a.attempts) :
        a \in try_each(ex, Flip(conv), <<LullEntry(lull_move)>>, 1, attempts)}

\* the lull branch of a step, entered with the sample already true
LullMove(ex, conv, lull_move, attempts) ==
    UNION {
        IF a.status # "false" THEN {a}
        ELSE try_each(ex, Flip(a.conv), <<LullEntry(lull_move)>>, 1, a.attempts) :
        a \in try_each(ex, conv, <<LullEntry(lull_move)>>, 1, attempts)}

\* a step that leaves the marker on the participant who just spoke
Finish_no_flip(a, start, lull) ==
    IF a.status = "error"
    THEN Outcome(a.err, a.conv, StepTrace("step", start, a.attempts, lull, <<>>))
    ELSE Outcome(RetOk, a.conv, StepTrace("step", start, a.attempts, lull, a.made))

\* how a half of the step ends when it did not fail twice: an error is returned
\* as it is, a success flips the speaker
Finish(a, start, lull) ==
    IF a.status = "error"
    THEN Outcome(a.err, a.conv, StepTrace("step", start, a.attempts, lull, <<>>))
    ELSE Outcome(RetOk, Flip(a.conv), StepTrace("step", start, a.attempts, lull, a.made))

\* a step that fails twice and leaves the conversation running
EndDone_not_set(a, start, lull) ==
    Outcome(RetOk, a.conv, StepTrace("step", start, a.attempts, lull, <<>>))

\* conversation.done = true
EndDone(a, start, lull) ==
    Outcome(RetOk, [a.conv EXCEPT !.done = TRUE],
            StepTrace("step", start, a.attempts, lull, <<>>))

\* DialogManager::step_conversation past its `done` check: timestep, the two
\* attempts to speak, the lull roll and the two lull attempts
step_not_done(ex, conv, lull_move) ==
    LET start == conv.speaker
        lull(a) ==
            UNION {
                IF roll
                THEN {IF l.status = "false"
                        THEN EndDone(l, start, "continue")
                        ELSE Finish(l, start, "continue") :
                      l \in LullMove(ex, a.conv, lull_move, a.attempts)}
                ELSE {EndDone(a, start, "stop")} :
                roll \in Sample(conv.lull_continue_chance)}
    IN  UNION {
            IF a.status = "false" THEN lull(a) ELSE {Finish(a, start, "none")} :
            a \in SpeakOrOther(ex, timestep(conv))}

\* a step that does not look at `done`
step_conversation_unchecked(ex, conv, lull_move) == step_not_done(ex, conv, lull_move)

\* DialogManager::step_conversation: every outcome of one call
step_conversation(ex, conv, lull_move) ==
    IF conv.done
    THEN {Outcome(RetOk, conv, StepTrace("noop", conv.speaker, <<>>, "none", <<>>))}
    ELSE step_not_done(ex, conv, lull_move)

\* ------------------------------------------------------------------ content
\* The registries, frames and goals the conversations are run on: the example
\* content pack of cercopes_dialog_test, and small registries built the same way.

Node(dialog_moves, addressed_topics, precondition, edit, formatter, parts) ==
    [dialog_moves |-> dialog_moves, addressed_topics |-> addressed_topics,
     precondition |-> precondition, edit_historical_move |-> edit,
     formatter |-> formatter, parts |-> parts]

\* the frame's idiom: entry(move).or_insert(meta with times_pushed 0).push()
FramePush(conv, s, dialog_move, urgency, time_to_live) ==
    [conv EXCEPT ![SpeakerField(s)].pushed_obligations =
        MapPut(@, dialog_move,
            MetaPush(IF dialog_move \in DOMAIN @ THEN @[dialog_move]
                     ELSE Obligation(urgency, time_to_live, 0)))]

FrameGoal(conv, g) == [conv EXCEPT !.goals = Append(@, g)]

\* (frame.state)(&mut conversation), for a frame that sets a goal or pushes an
\* obligation
ApplyFrame(conv, frame) ==
    IF frame.kind = "goal" THEN FrameGoal(conv, frame.goal)
    ELSE FramePush(conv, frame.speaker, frame.dialog_move, frame.urgency, frame.time_to_live)

RECURSIVE run_frames(_, _)
\* a loop that runs the frames from the last registered to the first
run_frames_last_first(conv, frames) ==
    IF frames = <<>> THEN conv
    ELSE ApplyFrame(run_frames(conv, Tail(frames)), Head(frames))

\* `for frame in frames` of Conversation::new
run_frames(conv, frames) ==
    IF frames = <<>> THEN conv
    ELSE run_frames(ApplyFrame(conv, Head(frames)), Tail(frames))

\* DialogManager::new_conversation on a manager whose frames are `frames`
new_conversation(frames, initiator, lull_continue_chance, person0, person1) ==
    run_frames(ConversationNew(initiator, lull_continue_chance, person0, person1), frames)

\* manager_nodes() restricted to the greet nodes
GreetNodes ==
    ("simple_greet" :> Node({"greet"}, {}, PreAlways, <<>>, FmtJoin("", "."),
                            <<<<"simple_hello", "simple_hi">>>>))
    @@ ("simple_hello" :> Node({}, {}, PreAlways, <<>>, FmtConst("Hello"), <<>>))
    @@ ("simple_hi" :> Node({}, {}, PreAlways, <<>>, FmtConst("Hi"), <<>>))

\* manager_nodes()
ContentPackNodes ==
    GreetNodes
    @@ ("nothing" :> Node({}, {}, PreAlways, <<>>, FmtConst(""), <<>>))
    @@ ("bored" :> Node({"make_small_talk"}, {}, PreAlways, <<>>,
                        FmtConst("This conversation bores me."), <<>>))
    @@ ("state_feelings" :>
            Node({"state_feelings", "make_small_talk"}, {}, PreAlways,
                 <<EditAddressMine("state_feelings")>>,
                 FmtChoose("I feel ", {"happy", "sad", "angry", "upset", "ecstatic", "excited"}, "."),
                 <<>>))
    @@ ("ask_feelings_simple" :>
            Node({"ask_feelings", "make_small_talk"}, {}, PreAlways,
                 <<EditPushOthers("state_feelings", 0, 3)>>,
                 FmtConst("How are you feeling?"), <<>>))
    @@ ("raw_fav_music_genre" :>
            Node({"raw_fav_music_genre"}, {}, PreAlways,
                 <<EditAddressMine("state_feelings")>>, FmtFavMusic, <<>>))
    @@ ("state_fav_music_genre" :>
            Node({"state_fav_music_genre", "make_small_talk"}, {"fav_music_genre"},
                 PreObligedOrCanAddress("state_fav_music_genre", "fav_music_genre"),
                 <<EditAddressMine("state_fav_music_genre"), EditAddressTopic("fav_music_genre")>>,
                 FmtFirst("My favorite genre of music is ", "."),
                 <<<<"raw_fav_music_genre">>>>))
    @@ ("ask_fav_music_genre" :>
            Node({"ask_fav_music_genre", "make_small_talk"}, {},
                 PreCanIntroduce("fav_music_genre"),
                 <<EditPushOthers("state_fav_music_genre", 0, 3), EditIntroduce("fav_music_genre")>>,
                 FmtConst("What's your favorite genre of music?"), <<>>))

\* default_frame()
default_frame(conv) ==
    FrameGoal(
        FramePush(FramePush(conv, Person0, "greet", 1000000, 5), Person1, "greet", 1000000, 5),
        RepeatGoalMove(GoalMove(AnyPursuer, "make_small_talk"), 2))

Character0 == [fav_music |-> "Jazz"]
Character1 == [fav_music |-> "Rock"]

Scenario(nodes, conv) == [expander |-> ExpanderNew(nodes), conversation |-> conv]

\* rust_test(): the content pack, its frame, Person0 initiating
ContentPackScenario ==
    Scenario(ContentPackNodes,
             default_frame(ConversationNew(Person0, 20, Character0, Character1)))

Chances == {0, 50, 100}

\* the greet registry with the single goal "Person0 must greet"
GreetScenario(initiator, chance) ==
    Scenario(GreetNodes,
             FrameGoal(ConversationNew(initiator, chance, Character0, Character1),
                       PerformGoalMove(GoalMove(Person0, "greet"))))

Urgencies == {0, 1}
TTLs == 0..MaxTTL

\* A nag pushes "owe" onto the other participant, who has no way to address it:
\* by a leaf node, or by a node whose part pushes it as well.
NagNodes(uA, tA, uB, tB) ==
    ("nag" :> Node({"nag"}, {}, PreAlways, <<EditPushOthers("owe", uA, tA)>>,
                   FmtConst("You owe me."), <<>>))
    @@ ("nag_twice" :> Node({"nag"}, {}, PreAlways, <<EditPushOthers("owe", uB, tB)>>,
                         FmtJoin("", " Twice."), <<<<"nag_part">>>>))
    @@ ("nag_part" :> Node({}, {}, PreAlways, <<EditPushOthers("owe", uA, tA)>>,
                        FmtConst("You owe me."), <<>>))
    @@ ("pay" :> Node({"owe"}, {}, PreNever, <<>>, FmtConst("Here."), <<>>))
    @@ ("chat" :> Node({"make_small_talk"}, {}, PreAlways, <<>>, FmtConst("So."), <<>>))

NagScenario(uA, tA, uB, tB, pursuer, reps) ==
    Scenario(NagNodes(uA, tA, uB, tB),
             FrameGoal(ConversationNew(Person0, 100, Character0, Character1),
                       RepeatGoalMove(GoalMove(pursuer, "nag"), reps)))

Pres == {PreAlways, PreNever}

\* Two topics and two obligations of different urgency, each with a handler
\* that may refuse; the topic "t3" has no handler at all.
AgendaNodes(p1, p2, p3, p4) ==
    ("on_t1" :> Node({}, {"t1"}, p1, <<>>, FmtConst("About t1."), <<>>))
    @@ ("on_t2" :> Node({}, {"t2"}, p2, <<>>, FmtConst("About t2."), <<>>))
    @@ ("pay_hi" :> Node({"owe_hi"}, {}, p3, <<>>, FmtConst("Urgent."), <<>>))
    @@ ("pay_lo" :> Node({"owe_lo"}, {}, p4, <<>>, FmtConst("Later."), <<>>))
    @@ ("chat" :> Node({"make_small_talk"}, {}, PreAlways, <<>>, FmtConst("So."), <<>>))

agenda_frame(conv, topics, ttl) ==
    FrameGoal(
        FramePush(FramePush(FramePush(
            [conv EXCEPT !.topic_state.introduced = topics],
            Person0, "owe_hi", 5, ttl), Person0, "owe_lo", 1, ttl), Person1, "owe_lo", 1, ttl),
        RepeatGoalMove(GoalMove(AnyPursuer, "make_small_talk"), 1))

AgendaScenario(initiator, p1, p2, p3, p4, topics, ttl) ==
    Scenario(AgendaNodes(p1, p2, p3, p4),
             agenda_frame(ConversationNew(initiator, 50, Character0, Character1), topics, ttl))

\* A node with one OR-group ("tell_root": alt_a or alt_b, alt_b having a part of
\* its own), a node listed as a part of one parent ("leaf" in "wrap", in its
\* first or its second part) and a top-level node without parts ("plain").
ChainNodes(pa, pb, pd, pw, px, first) ==
    ("tell_root" :> Node({"tell"}, {}, PreAlways, <<>>, FmtJoin("", "."),
                         <<<<"alt_a", "alt_b">>>>))
    @@ ("alt_a" :> Node({}, {}, pa, <<>>, FmtConst("A"), <<>>))
    @@ ("alt_b" :> Node({}, {}, pb, <<>>, FmtJoin("B", ""), <<<<"deep">>>>))
    @@ ("deep" :> Node({}, {}, pd, <<>>, FmtConst("d"), <<>>))
    @@ ("wrap" :> Node({"frame_it"}, {"gossip"}, pw, <<>>, FmtJoin("[", "]"),
                       IF first THEN <<<<"leaf">>, <<"side_x", "side_y">>>>
                                ELSE <<<<"side_x", "side_y">>, <<"leaf">>>>))
    @@ ("leaf" :> Node({"ask"}, {"news"}, PreAlways, <<>>, FmtConst("?"), <<>>))
    @@ ("side_x" :> Node({}, {}, px, <<>>, FmtConst("x"), <<>>))
    @@ ("side_y" :> Node({}, {}, PreAlways, <<>>, FmtConst("y"), <<>>))
    @@ ("plain" :> Node({"plain"}, {"sports"}, PreAlways, <<>>, FmtConst("Plain."), <<>>))

\* a conversation whose one goal asks for `dialog_move` once, by anyone
ChainScenario(pa, pb, pd, pw, px, first, dialog_move) ==
    Scenario(ChainNodes(pa, pb, pd, pw, px, first),
             FrameGoal(ConversationNew(Person0, 0, Character0, Character1),
                       RepeatGoalMove(GoalMove(AnyPursuer, dialog_move), 1)))

\* one node per goal move; with `both` the first node declares the second
\* move as well
SequenceNodes(both) ==
    ("do1" :> Node(IF both THEN {"move1", "move2"} ELSE {"move1"}, {}, PreAlways, <<>>,
                   FmtConst("One."), <<>>))
    @@ ("do2" :> Node({"move2"}, {}, PreAlways, <<>>, FmtConst("Two."), <<>>))

\* a frame that sets the goal [(a, move1), (b, move2)], as a GoalSequence or a
\* GoalEagerSequence, and may oblige Person1 to move2
sequence_frame(conv, eager, a, b, owed) ==
    LET sequence == <<GoalMove(a, "move1"), GoalMove(b, "move2")>>
        goal == IF eager THEN GoalEagerSequence(sequence) ELSE GoalSequence(sequence)
    IN  FrameGoal(IF owed THEN FramePush(conv, Person1, "move2", 0, MaxTTL) ELSE conv, goal)

SequenceScenario(initiator, eager, a, b, owed, both) ==
    Scenario(SequenceNodes(both),
             sequence_frame(ConversationNew(initiator, 0, Character0, Character1),
                            eager, a, b, owed))

\* Two nodes that list each other as their only part: "echo" declares the move
\* "echo" and the topic "weather", "echo_again" is its part and has "echo" as
\* its own part.
LoopNodes(pe) ==
    ("echo" :> Node({"echo"}, {"weather"}, PreAlways, <<>>, FmtJoin("", "!"),
                    <<<<"echo_again">>>>))
    @@ ("echo_again" :> Node({}, {}, pe, <<>>, FmtJoin("", "?"), <<<<"echo">>>>))

\* a conversation on the loop registry whose first attempt is the topic "weather"
\* (introduced by the frame) or the move "echo" (a goal)
LoopScenario(initiator, pe, by_topic) ==
    Scenario(LoopNodes(pe),
             LET conv == ConversationNew(initiator, 0, Character0, Character1)
             IN  IF by_topic
                    THEN [conv EXCEPT !.topic_state.introduced = {"weather"}]
                    ELSE FrameGoal(conv, PerformGoalMove(GoalMove(AnyPursuer, "echo"))))

\* Three nodes that declare the move "say" and the topic "matter": "cand_plain"
\* without parts, "cand_deep" with one part, and "cand_part", which "holder"
\* lists as the second alternative of its only part; "holder" is in turn the
\* part of "outer".
CandNodes(p1, p2, pd, p3, pp) ==
    ("cand_plain" :> Node({"say"}, {"matter"}, p1, <<>>, FmtConst("Plainly."), <<>>))
    @@ ("cand_deep" :> Node({"say"}, {"matter"}, p2, <<>>, FmtJoin("Deeply ", "."),
                            <<<<"deep">>>>))
    @@ ("deep" :> Node({}, {}, pd, <<>>, FmtConst("so"), <<>>))
    @@ ("cand_part" :> Node({"say"}, {"matter"}, p3, <<>>, FmtConst("partly"), <<>>))
    @@ ("filler" :> Node({}, {}, PreAlways, <<>>, FmtConst("well"), <<>>))
    @@ ("holder" :> Node({"hold"}, {}, pp, <<>>, FmtJoin("(", ")"),
                         <<<<"filler", "cand_part">>>>))
    @@ ("outer" :> Node({"enclose"}, {}, PreAlways, <<>>, FmtJoin("{", "}"), <<<<"holder">>>>))

\* a conversation on the candidate registry whose first attempt is the topic
\* "matter" (introduced by the frame) or the move "say" (a goal)
CandScenario(p1, p2, pd, p3, pp, by_topic) ==
    Scenario(CandNodes(p1, p2, pd, p3, pp),
             LET conv == ConversationNew(Person0, 0, Character0, Character1)
             IN  IF by_topic
                    THEN [conv EXCEPT !.topic_state.introduced = {"matter"}]
                    ELSE FrameGoal(conv, PerformGoalMove(GoalMove(AnyPursuer, "say"))))

\* A parent and a child whose edit-callbacks each retract a topic of their own,
\* a topic of the other, and push an obligation: "top" declares ta and tb and
\* retracts tb and tc; "kid" declares tc and td and retracts ta and td.  With
\* `twice` the child fills two parts of the parent.
OrderNodes(twice) ==
    ("top" :> Node({"report"}, {"ta", "tb"}, PreAlways,
                   <<EditRetractTopic("tb"), EditRetractTopic("tc"),
                     EditPushOthers("reply", 1, MaxTTL)>>,
                   FmtJoin("<", ">"),
                   IF twice THEN <<<<"kid">>, <<"kid">>>> ELSE <<<<"kid">>>>))
    @@ ("kid" :> Node({"detail"}, {"tc", "td"}, PreAlways,
                      <<EditRetractTopic("ta"), EditRetractTopic("td"),
                        EditPushOthers("reply", 0, 1)>>,
                      FmtConst("k"), <<>>))

OrderScenario(initiator, twice) ==
    Scenario(OrderNodes(twice),
             FrameGoal(ConversationNew(initiator, 0, Character0, Character1),
                       PerformGoalMove(GoalMove(AnyPursuer, "report"))))

\* A node with an OR-group that has no alternative, as its only part or after
\* a part that can be filled.
HollowNodes(after) ==
    ("hollow" :> Node({"void"}, {}, PreAlways, <<>>, FmtJoin("", "."),
                      IF after THEN <<<<"stuffing">>, <<>>>> ELSE <<<<>>>>))
    @@ ("stuffing" :> Node({}, {}, PreAlways, <<>>, FmtConst("s"), <<>>))

HollowScenario(initiator, after) ==
    Scenario(HollowNodes(after),
             FrameGoal(ConversationNew(initiator, 0, Character0, Character1),
                       PerformGoalMove(GoalMove(AnyPursuer, "void"))))

\* A node whose move the speaker owes and whose edit-callback makes the speaker
\* owe it again: "promise" declares "owe_more" and pushes it onto the speaker.
PromiseNodes ==
    ("promise" :> Node({"owe_more"}, {}, PreAlways, <<EditPushMine("owe_more", 1, 1)>>,
                       FmtConst("More later."), <<>>))

\* the frame obliges the initiator to "owe_more"
PromiseScenario(initiator, u, ttl) ==
    Scenario(PromiseNodes,
             FramePush(ConversationNew(initiator, 0, Character0, Character1),
                       initiator, "owe_more", u, ttl))

\* A node that declares a move and a topic, under a goal that asks for the move
\* twice; its precondition is always true or looks at the topic.
TopicalNodes(pre) ==
    ("remark" :> Node({"remark"}, {"weather"}, pre, <<>>, FmtConst("Rain again."), <<>>))

TopicalScenario(initiator, pre) ==
    Scenario(TopicalNodes(pre),
             FrameGoal(ConversationNew(initiator, 0, Character0, Character1),
                       RepeatGoalMove(GoalMove(AnyPursuer, "remark"), 2)))

\* rust_test() with a goal of the caller's own appended by a further frame
ObserverScenario(initiator) ==
    Scenario(ContentPackNodes,
             FrameGoal(default_frame(ConversationNew(initiator, 20, Character0, Character1)),
                       ObserverGoal))

\* Person0 owes two moves of the same urgency; each handler may refuse
TieScenario(initiator, t1, t2, p3, p4) ==
    Scenario(AgendaNodes(PreAlways, PreAlways, p3, p4),
             FramePush(FramePush(ConversationNew(initiator, 0, Character0, Character1),
                                 Person0, "owe_hi", 1, t1),
                       Person0, "owe_lo", 1, t2))

\* Small talk that only a participant who owes "owe_hi" is ready to make, its
\* topic being closed, and that passes the debt on; Person0 owes it and nobody
\* can pay.
LullScenario(initiator) ==
    Scenario(("pay_hi" :> Node({"owe_hi"}, {}, PreNever, <<>>, FmtConst("Urgent."), <<>>))
             @@ ("chat" :> Node({"make_small_talk"}, {},
                                PreObligedOrCanAddress("owe_hi", "t1"),
                                <<EditPushOthers("owe_hi", 1, MaxTTL)>>,
                                FmtConst("So."), <<>>)),
             FramePush([ConversationNew(initiator, 100, Character0, Character1)
                            EXCEPT !.topic_state.addressed = {"t1"}],
                       Person0, "owe_hi", 1, MaxTTL))

Scenarios ==
    {ContentPackScenario}
    \cup {LullScenario(initiator) : initiator \in Speakers}
    \cup {TieScenario(initiator, t1, t2, p3, p4) :
            initiator \in Speakers, t1 \in TTLs, t2 \in TTLs, p3 \in Pres, p4 \in Pres}
    \cup {ObserverScenario(initiator) : initiator \in Speakers}
    \cup {TopicalScenario(initiator, pre) :
            initiator \in Speakers, pre \in {PreAlways, PreCanIntroduce("weather")}}
    \cup {PromiseScenario(initiator, u, ttl) :
            initiator \in Speakers, u \in Urgencies, ttl \in TTLs}
    \cup {HollowScenario(initiator, after) : initiator \in Speakers, after \in BOOLEAN}
    \cup {OrderScenario(initiator, twice) : initiator \in Speakers, twice \in BOOLEAN}
    \cup {CandScenario(p1, p2, pd, p3, pp, by_topic) :
            p1 \in Pres, p2 \in Pres, pd \in Pres, p3 \in Pres, pp \in Pres,
            by_topic \in BOOLEAN}
    \cup {LoopScenario(initiator, pe, by_topic) :
            initiator \in Speakers, pe \in Pres, by_topic \in BOOLEAN}
    \cup {SequenceScenario(initiator, eager, a, b, owed, both) :
            initiator \in Speakers, eager \in BOOLEAN,
            a \in Speakers \cup {AnyPursuer}, b \in Speakers \cup {AnyPursuer},
            owed \in BOOLEAN, both \in BOOLEAN}
    \cup {ChainScenario(pa, pb, pd, pw, px, first, dialog_move) :
            pa \in Pres, pb \in Pres, pd \in Pres, pw \in Pres, px \in Pres,
            first \in BOOLEAN, dialog_move \in {"tell", "ask", "plain"}}
    \cup {GreetScenario(i, c) : i \in Speakers, c \in Chances}
    \cup {NagScenario(uA, tA, uB, tB, pursuer, reps) :
            uA \in Urgencies, tA \in TTLs, uB \in Urgencies, tB \in TTLs,
            pursuer \in {Person0, AnyPursuer}, reps \in 1..3}
    \cup {AgendaScenario(i, p1, p2, p3, p4, topics, ttl) :
            i \in Speakers, p1 \in Pres, p2 \in Pres, p3 \in Pres, p4 \in Pres,
            topics \in {{}, {"t1", "t2"}, {"t1", "t3"}}, ttl \in TTLs}

\* the lull moves step_conversation is called with
LullMoves == {"make_small_talk", "owe"}

\* ----------------------------------------------------------------- pushlog
\* Observation only: for each participant and obligation, the time_to_live the
\* map held when the obligation was last pushed, and the timestep() calls since.

PushlogOf(ps) ==
    [m \in DOMAIN ps.pushed_obligations |->
        [ttl |-> ps.pushed_obligations[m].time_to_live, steps |-> 0]]

PushlogAged(log) == [m \in DOMAIN log |-> [log[m] EXCEPT !.steps = @ + 1]]

PushlogMerged(log, hobl, ps) ==
    LET kept == MapRemove(log, hobl.addressed)
    IN  [m \in DOMAIN kept \cup DOMAIN hobl.pushed |->
            IF m \in DOMAIN hobl.pushed
                THEN [ttl |-> ps.pushed_obligations[m].time_to_live, steps |-> 0]
                ELSE kept[m]]

PushlogStep(log, out) ==
    IF out.trace.kind = "noop" THEN log
    ELSE IF out.trace.made = <<>>
        THEN [person0 |-> PushlogAged(log.person0), person1 |-> PushlogAged(log.person1)]
        ELSE [person0 |-> PushlogMerged(PushlogAged(log.person0),
                            out.trace.made[1].hmove.person0_obligations, out.conv.person0),
              person1 |-> PushlogMerged(PushlogAged(log.person1),
                            out.trace.made[1].hmove.person1_obligations, out.conv.person1)]

\* ------------------------------------------------------------ specification

Aborted == ret.kind \in {"Panic", "StackOverflow"}

\* no second conversation
Absent == [kind |-> "absent"]

\* The state after DialogManager::new and new_conversation (frames run).
Init ==
    /\ \E sc \in Scenarios :
        /\ expander = sc.expander
        /\ conversation = sc.conversation
        /\ pushlog = [person0 |-> PushlogOf(sc.conversation.person0),
                      person1 |-> PushlogOf(sc.conversation.person1)]
    /\ ret = [kind |-> "None"]
    /\ trace = StepTrace("init", Person0, <<>>, "none", <<>>)
    /\ other = Absent

\* One call of DialogManager::step_conversation.
StepConversation(lull_move) ==
    /\ ~Aborted
    /\ Len(conversation.history) < MaxHistory
    /\ \E out \in step_conversation(expander, conversation, lull_move) :
        /\ conversation' = out.conv
        /\ ret' = out.ret
        /\ trace' = out.trace
        /\ pushlog' = PushlogStep(pushlog, out)
    /\ UNCHANGED <<expander, other>>

Next == \E lull_move \in LullMoves : StepConversation(lull_move)

Spec == Init /\ [][Next]_vars

\* ---------------------------------------- a registry that changes while in use
\* DialogManager's insert_move_node, remove_move_node and extend are called
\* between the steps of a conversation whose goal is the move "report".

NodeIds == {"top", "kid", "alt"}

\* the move nodes the caller registers: a leaf, and two parents that name their
\* parts by identifier
Templates ==
    {Node({"detail"}, {"tc"}, PreAlways, <<>>, FmtConst("k"), <<>>),
     Node({"report"}, {"ta"}, PreAlways, <<>>, FmtJoin("<", ">"), <<<<"kid", "alt">>>>),
     Node({"report"}, {}, PreAlways, <<>>, FmtJoin("[", "]"), <<<<"kid">>, <<"alt">>>>)}

\* DialogManager::new on a parent and its one registered part, then
\* new_conversation with a frame that sets the goal
InitRegistry ==
    /\ expander =
            ExpanderNew(
                ("top" :> Node({"report"}, {"ta"}, PreAlways, <<>>, FmtJoin("<", ">"),
                               <<<<"kid">>>>))
                @@ ("kid" :> Node({"detail"}, {"tc"}, PreAlways, <<>>, FmtConst("k"), <<>>)))
    /\ conversation =
            FrameGoal(ConversationNew(Person0, 0, Character0, Character1),
                      PerformGoalMove(GoalMove(AnyPursuer, "report")))
    /\ pushlog = [person0 |-> EmptyMap, person1 |-> EmptyMap]
    /\ ret = [kind |-> "None"]
    /\ trace = StepTrace("init", Person0, <<>>, "none", <<>>)
    /\ other = Absent

InsertMoveNode(expander_node, move_node) ==
    /\ ~Aborted
    /\ expander' = insert_move_node(expander, expander_node, move_node)
    /\ UNCHANGED <<conversation, ret, trace, pushlog, other>>

RemoveMoveNode(expander_node) ==
    /\ ~Aborted
    /\ expander' = remove_move_node(expander, expander_node)
    /\ UNCHANGED <<conversation, ret, trace, pushlog, other>>

\* DialogManager::extend with one or two (identifier, node) pairs
ExtendNodes(nodes) ==
    /\ ~Aborted
    /\ expander' = extend(expander, nodes)
    /\ UNCHANGED <<conversation, ret, trace, pushlog, other>>

NextRegistry ==
    \/ \E n \in NodeIds : \E t \in Templates : InsertMoveNode(n, t)
    \/ \E n \in NodeIds : RemoveMoveNode(n)
    \/ \E n1 \in NodeIds : \E n2 \in NodeIds : \E t1 \in Templates : \E t2 \in Templates :
            ExtendNodes((n1 :> t1) @@ (n2 :> t2))
    \/ \E lull_move \in LullMoves : StepConversation(lull_move)

SpecRegistry == InitRegistry /\ [][NextRegistry]_vars

\* ------------------------------------------------- goals shown their moves
\* A conversation that holds one goal is shown historical moves of either
\* participant, as update_for_move is handed them by a successful attempt.

\* the goals a frame builds from the constructors of goal.rs
GoalsUnderTest ==
    LET GoalMoves == {GoalMove(Person0, "move1"), GoalMove(Person1, "move1"),
                      GoalMove(AnyPursuer, "move2")}
        sequences == UNION {[1..n -> GoalMoves] : n \in 0..3}
        parts == {PerformGoalMove(GoalMove(Person0, "move1")),
                  RepeatGoalMove(GoalMove(AnyPursuer, "move2"), 2),
                  RepeatGoalMove(GoalMove(Person0, "move1"), 0),
                  GoalSequence(<<GoalMove(Person1, "move1"), GoalMove(AnyPursuer, "move2")>>)}
    IN  {PerformGoalMove(gm) : gm \in GoalMoves}
        \cup {RepeatGoalMove(gm, n) : gm \in GoalMoves, n \in 0..2}
        \cup {GoalSequence(sq) : sq \in sequences}
        \cup {GoalEagerSequence(sq) : sq \in sequences}
        \cup {ConcatGoals(g1, g2) : g1 \in parts, g2 \in parts}

\* the historical moves create_historical can hand over: a speaker, what the
\* callbacks marked addressed for the speaker and for the other participant
HistoricalMoves ==
    {[utterance |-> "",
      speaker |-> s,
      person0_obligations |->
        [EmptyObligations EXCEPT !.addressed = IF s = Person0 THEN mine ELSE others],
      person1_obligations |->
        [EmptyObligations EXCEPT !.addressed = IF s = Person1 THEN mine ELSE others],
      topic_state |-> [introduced |-> {}, addressed |-> {}]] :
     s \in Speakers, mine \in SUBSET {"move1", "move2"}, others \in {{}, {"move2"}}}

\* the frame lists a manager is built with: none, one frame that sets a goal,
\* and lists that set two goals and push obligations in between
FrameLists ==
    LET goal(g) == [kind |-> "goal", goal |-> g]
        push(s, u, ttl) ==
            [kind |-> "push", speaker |-> s, dialog_move |-> "move1", urgency |-> u,
             time_to_live |-> ttl]
        gA == PerformGoalMove(GoalMove(Person0, "move1"))
        gB == RepeatGoalMove(GoalMove(AnyPursuer, "move2"), 2)
    IN  {<<>>}
        \cup {<<goal(g)>> : g \in GoalsUnderTest}
        \cup {<<push(Person0, 1, 1), goal(gA), goal(gB)>>,
              <<goal(gB), push(Person0, 1, 1), push(Person0, 0, MaxTTL), goal(gA),
                push(Person1, 0, 0)>>}

\* DialogManager::new and new_conversation; `trace` keeps the frames
InitGoals ==
    /\ expander = ExpanderNew(SequenceNodes(TRUE))
    /\ \E frames \in FrameLists : \E initiator \in Speakers :
        /\ initiator = Person0 \/ Len(frames) # 1
        /\ conversation = new_conversation(frames, initiator, 0, Character0, Character1)
        /\ trace = [kind |-> "init", start_speaker |-> initiator, attempts |-> <<>>,
                    lull |-> "none", made |-> <<>>, frames |-> frames]
    /\ pushlog = [person0 |-> EmptyMap, person1 |-> EmptyMap]
    /\ ret = [kind |-> "None"]
    /\ other = Absent

\* Conversation::update_for_move with the move of the participant whose turn it
\* is; `trace` keeps the goals as they were before the call
MadeMove(hmove) ==
    /\ Len(conversation.history) < MaxMoves
    /\ conversation' = update_for_move([conversation EXCEPT !.speaker = hmove.speaker], hmove)
    /\ trace' = [kind |-> "made_move", start_speaker |-> hmove.speaker, attempts |-> <<>>,
                 lull |-> "none", made |-> <<>>, before |-> conversation.goals]
    /\ UNCHANGED <<expander, ret, pushlog, other>>

NextGoals == \E hmove \in HistoricalMoves : MadeMove(hmove)

SpecGoals == InitGoals /\ [][NextGoals]_vars

\* ------------------------------------------- two conversations, one manager

\* a step that also writes the stepped conversation's topics into the bystander
step_one_of_two_sharing_topics(ex, conv, bystander, lull_move) ==
    {[out |-> out,
      bystander |-> [bystander EXCEPT !.topic_state = out.conv.topic_state]] :
        out \in step_conversation(ex, conv, lull_move)}

\* step_conversation(&self, &mut conversation, ..) called while the manager
\* holds a second conversation: the outcomes of the call and what they leave of
\* the conversation that was not passed to it
step_one_of_two(ex, conv, bystander, lull_move) ==
    {[out |-> out, bystander |-> bystander] :
        out \in step_conversation(ex, conv, lull_move)}

\* the conversations two callers can hold against one manager
PairScenarios ==
    {GreetScenario(initiator, chance) : initiator \in Speakers, chance \in Chances}
    \cup {LoopScenario(initiator, pe, by_topic) :
              initiator \in Speakers, pe \in Pres, by_topic \in BOOLEAN}
    \cup {NagScenario(1, 1, 0, MaxTTL, pursuer, reps) :
              pursuer \in {Person0, AnyPursuer}, reps \in 1..2}

\* The state after DialogManager::new and two calls of new_conversation.
InitPair ==
    /\ \E sc \in PairScenarios : \E sc2 \in PairScenarios :
        /\ sc2.expander = sc.expander
        /\ expander = sc.expander
        /\ conversation = sc.conversation
        /\ pushlog = [person0 |-> PushlogOf(sc.conversation.person0),
                      person1 |-> PushlogOf(sc.conversation.person1)]
        /\ other = [conversation |-> sc2.conversation, ret |-> [kind |-> "None"]]
    /\ ret = [kind |-> "None"]
    /\ trace = StepTrace("init", Person0, <<>>, "none", <<>>)

\* a stack overflow in either call has ended the process
ProcessAborted == "StackOverflow" \in {ret.kind, other.ret.kind}

\* One call of step_conversation on the first conversation.
StepFirst(lull_move) ==
    /\ ~ProcessAborted
    /\ ~Aborted
    /\ Len(conversation.history) < MaxHistory
    /\ \E r \in step_one_of_two(expander, conversation, other.conversation, lull_move) :
        /\ conversation' = r.out.conv
        /\ ret' = r.out.ret
        /\ trace' = r.out.trace
        /\ pushlog' = PushlogStep(pushlog, r.out)
        /\ other' = [other EXCEPT !.conversation = r.bystander]
    /\ UNCHANGED expander

\* One call of step_conversation on the second conversation.
StepSecond(lull_move) ==
    /\ ~ProcessAborted
    /\ other.ret.kind # "Panic"
    /\ Len(other.conversation.history) < MaxHistory
    /\ \E r \in step_one_of_two(expander, other.conversation, conversation, lull_move) :
        /\ other' = [conversation |-> r.out.conv, ret |-> r.out.ret]
        /\ conversation' = r.bystander
    /\ UNCHANGED <<expander, ret, trace, pushlog>>

NextPair ==
    \E lull_move \in LullMoves : StepFirst(lull_move) \/ StepSecond(lull_move)

SpecPair == InitPair /\ [][NextPair]_vars

\* ------------------------------------------------------------------- claims

\* the conversation has not been stepped yet
Fresh == trace.kind = "init"

\* the greet registry with the single goal "Person0 must greet"
GreetSetup ==
    /\ expander = ExpanderNew(GreetNodes)
    /\ conversation.goals = <<PerformGoalMove(GoalMove(Person0, "greet"))>>

\* the greet-node formatter applied to the text of hello or of hi
GreetUtterances ==
    UNION {Format(GreetNodes["simple_greet"].formatter, conversation, <<text>>) :
            text \in UNION {Format(GreetNodes[c].formatter, conversation, <<>>) :
                                c \in {"simple_hello", "simple_hi"}}}

\* C1: on the greet registry with the goal "Person0 must greet", the first call of
\* step_conversation returns Ok and appends exactly one historical move, spoken by
\* Person0, with greet among its addressed obligations and an utterance that is
\* the greet formatter applied to the text of hello or of hi, and the goal is
\* satisfied afterwards; whichever participant initiates.
C1_GreetOnce ==
    [][(Fresh /\ GreetSetup) =>
        /\ ret'.kind = "Ok"
        /\ Len(conversation'.history) = 1
        /\ conversation'.history[1].speaker = Person0
        /\ "greet" \in conversation'.history[1].person0_obligations.addressed
        /\ conversation'.history[1].utterance \in GreetUtterances
        /\ is_satisfied(conversation'.goals[1])]_vars

\* C1 witness: Person1 initiated, and the one move of the first step is Person0's "Hi."
C1_Witness ==
    /\ expander = ExpanderNew(GreetNodes)
    /\ conversation.initiator = Person1
    /\ Len(conversation.history) = 1
    /\ conversation.history[1].speaker = Person0
    /\ conversation.history[1].utterance = "Hi."
    /\ is_satisfied(conversation.goals[1])

\* the move the last step appended, when it appended one
LastMove == conversation.history[Len(conversation.history)]

\* C2: after every step that appends a move, the speaker marker is the opposite
\* of the appended move's speaker; when the appended move is not by the
\* step-start speaker, the marker is the step-start speaker again.
C2_MarkerNamesNextSpeaker ==
    [][Len(conversation'.history) = Len(conversation.history) + 1 =>
        LET spoke == conversation'.history[Len(conversation'.history)].speaker
        IN  /\ conversation'.speaker = Not(spoke)
            /\ (spoke # conversation.speaker => conversation'.speaker = conversation.speaker)]_vars

\* C2 witness: the step-start speaker failed, the other participant spoke, and
\* the marker is back on the step-start speaker
C2_Witness ==
    /\ trace.kind = "step"
    /\ trace.made # <<>>
    /\ LastMove = trace.made[1].hmove
    /\ LastMove.speaker = Not(trace.start_speaker)
    /\ conversation.speaker = trace.start_speaker

\* every realization attempt of the last step was unsuccessful
NobodySpoke == \A i \in DOMAIN trace.attempts : trace.attempts[i].result = "false"

\* the lull-move attempts of the last step
LullAttempts == SelectSeq(trace.attempts, LAMBDA a : a.source = "lull")

\* both participants tried the lull move in the last step, and both failed
BothLullAttemptsFailed ==
    /\ trace.lull = "continue"
    /\ Len(LullAttempts) = 2
    /\ LullAttempts[1].speaker = Not(LullAttempts[2].speaker)
    /\ \A i \in 1..2 : LullAttempts[i].result = "false"

\* C3: a step on a not-done conversation that returns Ok either appends exactly
\* one move and leaves done false, or appends nothing and sets done; done is set
\* only in a step in which every attempt of both participants failed and either
\* the lull roll failed or both lull-move attempts failed.
C3_OneMoveOrDone ==
    [][(~conversation.done /\ ret'.kind = "Ok") =>
        /\ \/ /\ Len(conversation'.history) = Len(conversation.history) + 1
              /\ SubSeq(conversation'.history, 1, Len(conversation.history)) = conversation.history
              /\ ~conversation'.done
           \/ /\ conversation'.history = conversation.history
              /\ conversation'.done
        /\ conversation'.done =>
              /\ NobodySpoke'
              /\ \/ trace'.lull = "stop" /\ LullAttempts' = <<>>
                 \/ BothLullAttemptsFailed']_vars

\* C3 witness: the lull roll succeeded, both lull-move attempts failed, and the
\* step set done without appending a move
C3_Witness ==
    /\ trace.kind = "step"
    /\ conversation.done
    /\ ret.kind = "Ok"
    /\ trace.made = <<>>
    /\ BothLullAttemptsFailed

\* C4: a step on a done conversation returns Ok and changes nothing of the
\* conversation (no decay, no flip, no history entry, no goal notification), so
\* done stays true.
C4_DoneIsNoOp ==
    [][conversation.done =>
        /\ ret'.kind = "Ok"
        /\ conversation' = conversation
        /\ pushlog' = pushlog]_vars

\* C4 witness: step_conversation was called on a done conversation that still
\* holds a pushed obligation a timestep would have decayed
C4_Witness ==
    /\ trace.kind = "noop"
    /\ conversation.done
    /\ \E s \in Speakers : DOMAIN get_speaker_state(conversation, s).pushed_obligations # {}

\* the attempts of the last step made by `s` when it was its turn to speak
SpeakAttempts(s) ==
    {i \in DOMAIN trace.attempts :
        trace.attempts[i].speaker = s /\ trace.attempts[i].source # "lull"}

\* topics before obligations before goal-proposed moves
Rank(a) == CASE a.source = "topic" -> 1 [] a.source = "obligation" -> 2 [] OTHER -> 3

\* the items of kind `source` that `s` attempted in the last step
Attempted(s, source) ==
    {trace.attempts[i].item : i \in {j \in SpeakAttempts(s) : trace.attempts[j].source = source}}

\* C5: within one speaker's attempt of a step, topics come before obligations and
\* obligations before goal-proposed moves; a move is attempted only after every
\* pending topic, a goal-proposed move only after every obligation the speaker
\* holds; obligations are attempted in non-increasing urgency; and nothing is
\* attempted after the first realization that does not fail.
C5_AttemptOrder ==
    [][trace'.kind = "step" =>
        LET A == trace'.attempts
            seen == timestep(conversation)
            pending == seen.topic_state.introduced \ seen.topic_state.addressed
        IN  /\ \A s \in Speakers :
                /\ \A i, j \in SpeakAttempts(s)' :
                        i < j =>
                            /\ Rank(A[i]) <= Rank(A[j])
                            /\ (Rank(A[i]) = 2 /\ Rank(A[j]) = 2 => A[i].urgency >= A[j].urgency)
                /\ (\E i \in SpeakAttempts(s)' : Rank(A[i]) >= 2) =>
                        pending \subseteq Attempted(s, "topic")'
                /\ (\E i \in SpeakAttempts(s)' : Rank(A[i]) = 3) =>
                        DOMAIN get_speaker_state(seen, s).pushed_obligations
                            \subseteq Attempted(s, "obligation")'
            /\ \A i \in DOMAIN A : A[i].result # "false" => i = Len(A)]_vars

\* C5 witness: one speaker failed on a topic, then on an obligation, then on a
\* less urgent obligation, and then realized a goal-proposed move
C5_Witness ==
    \E s \in Speakers : \E i, j, k, l \in SpeakAttempts(s) :
        /\ i < j /\ j < k /\ k < l
        /\ trace.attempts[i].source = "topic"
        /\ trace.attempts[j].source = "obligation"
        /\ trace.attempts[k].source = "obligation"
        /\ trace.attempts[j].urgency > trace.attempts[k].urgency
        /\ trace.attempts[l].source = "goal"
        /\ trace.attempts[l].result = "true"
        /\ trace.made # <<>>

\* no node of the registry declares the item of the attempt
Undeclared(a) ==
    \A n \in DOMAIN expander.expander_nodes :
        IF a.source = "topic"
            THEN a.item \notin expander.expander_nodes[n].addressed_topics
            ELSE a.item \notin expander.expander_nodes[n].dialog_moves

\* C6: a step that tries to realize a topic or move no node declares returns
\* NoExpanderForTopic(topic) or NoExpanderForMove(move) to its caller.
C6_MissingHandlerIsReturned ==
    \A i \in DOMAIN trace.attempts :
        Undeclared(trace.attempts[i]) =>
            ret = IF trace.attempts[i].source = "topic"
                    THEN ResNoExpanderForTopic(trace.attempts[i].item)
                    ELSE ResNoExpanderForMove(trace.attempts[i].item)

\* C7: step_conversation never returns NoNodesSatisfyPreconditions; an attempt
\* that fails with it counts as false and the step goes on: another attempt
\* follows it, or the step ends Ok with the conversation done.
C7_NoNodesIsLocal ==
    /\ ret.kind # "NoNodesSatisfyPreconditions"
    /\ \A i \in DOMAIN trace.attempts :
            trace.attempts[i].result = "false" =>
                \/ i < Len(trace.attempts)
                \/ ret.kind = "Ok" /\ conversation.done /\ trace.made = <<>>

\* C7 witness: an attempt failed for want of a node whose precondition holds, and
\* the other participant then realized a move in the same step
C7_Witness ==
    /\ ret.kind = "Ok"
    /\ trace.made # <<>>
    /\ \E i, j \in DOMAIN trace.attempts :
            /\ i < j
            /\ trace.attempts[i].result = "false"
            /\ trace.attempts[j].result = "true"
            /\ trace.attempts[i].speaker # trace.attempts[j].speaker

RECURSIVE TreePushes(_, _), PartsPushes(_, _)
\* the pushes of `o` onto the other participant that the edit-callbacks of a
\* tree make, in the order create_historical runs them (parts first)
TreePushes(tree, o) ==
    PartsPushes(tree.parts, o)
    \o SelectSeq(expander.expander_nodes[tree.expander_node].edit_historical_move,
                 LAMBDA e : e.op = "push_others" /\ e.move = o)

PartsPushes(parts, o) ==
    IF parts = <<>> THEN <<>> ELSE TreePushes(Head(parts), o) \o PartsPushes(Tail(parts), o)

\* what a historical move pushed onto `p`
PushedBy(h, p) == h[ObligationsField(p)].pushed

\* the moves of the history that pushed `o` onto `p`, and those that addressed it
Pushers(p, o) == {i \in DOMAIN conversation.history : o \in DOMAIN PushedBy(conversation.history[i], p)}
Addressers(p, o) ==
    {i \in DOMAIN conversation.history :
        o \in conversation.history[i][ObligationsField(p)].addressed}

\* the move just merged and the earlier move `j` are the only two that pushed `o`
\* onto `p`, and `p` did not address it since `j` (the frames of the
\* conversations run here push no obligation that a callback pushes)
PushedByTwoMoves(p, o, j) ==
    /\ trace.made # <<>>
    /\ j < Len(conversation.history)
    /\ Pushers(p, o) = {j, Len(conversation.history)}
    /\ \A i \in Addressers(p, o) : i < j

\* what the latest move of the history pushed onto `p`
LastPushed(p) ==
    IF conversation.history = <<>> THEN EmptyMap ELSE PushedBy(LastMove, p)

\* the entry of `o` in the map of `p`
Stored(p, o) == get_speaker_state(conversation, p).pushed_obligations[o]

\* one move pushed `o` twice onto the participant it did not come from: its record
\* holds the larger urgency, the larger time_to_live and the count 2
PushedTwiceInOneMove ==
    trace.made # <<>> =>
        LET h == trace.made[1].hmove
        IN  \A o \in DOMAIN PushedBy(h, Not(h.speaker)) :
                LET P == TreePushes(trace.made[1].tree, o)
                IN  Len(P) = 2 =>
                        PushedBy(h, Not(h.speaker))[o] =
                            Obligation(Max(P[1].urgency, P[2].urgency),
                                       Max(P[1].time_to_live, P[2].time_to_live), 2)

\* C8 as stated: an obligation pushed twice before being addressed, in one move
\* or by two moves, ends with the larger of the two pushed urgencies, the larger
\* of the two pushed TTLs and the sum of the two counts.
C8_MaxOfBothPushes ==
    /\ PushedTwiceInOneMove
    /\ \A p \in Speakers : \A o \in DOMAIN LastPushed(p) :
            \A j \in DOMAIN conversation.history :
                PushedByTwoMoves(p, o, j) =>
                    LET m1 == PushedBy(conversation.history[j], p)[o]
                        m2 == LastPushed(p)[o]
                    IN  Stored(p, o) =
                            Obligation(Max(m1.urgency, m2.urgency),
                                       Max(m1.time_to_live, m2.time_to_live),
                                       m1.times_pushed + m2.times_pushed)

\* C8 amended: within one move the record is as stated. Across two moves a
\* timestep runs before every later move: while the first push has not expired
\* the map holds the larger urgency, the larger of the first push's REMAINING
\* time_to_live and the second push's, and the sum of the counts; once it has
\* expired the map holds the second push alone.
C8_MaxOfStoredAndPushed ==
    /\ PushedTwiceInOneMove
    /\ \A p \in Speakers : \A o \in DOMAIN LastPushed(p) :
            \A j \in DOMAIN conversation.history :
                PushedByTwoMoves(p, o, j) =>
                    LET m1 == PushedBy(conversation.history[j], p)[o]
                        m2 == LastPushed(p)[o]
                        elapsed == Len(conversation.history) - j
                    IN  Stored(p, o) =
                            IF m1.time_to_live >= elapsed
                            THEN Obligation(Max(m1.urgency, m2.urgency),
                                            Max(m1.time_to_live - elapsed, m2.time_to_live),
                                            m1.times_pushed + m2.times_pushed)
                            ELSE m2

\* C8 witness: the second push met the first one still in the map, pushed with
\* a larger time_to_live than the second and aged since
C8_Witness ==
    \E p \in Speakers : \E o \in DOMAIN LastPushed(p) :
        \E j \in DOMAIN conversation.history :
            /\ PushedByTwoMoves(p, o, j)
            /\ PushedBy(conversation.history[j], p)[o].time_to_live
                    >= Len(conversation.history) - j
            /\ PushedBy(conversation.history[j], p)[o].time_to_live
                    > LastPushed(p)[o].time_to_live
            /\ Stored(p, o).times_pushed >= 2

\* the obligation map of `p`, and the record of its pushes
MapOf(p) == get_speaker_state(conversation, p).pushed_obligations
LogOf(p) == pushlog[SpeakerField(p)]

\* C9: an obligation whose time_to_live was N when last pushed, not re-pushed or
\* addressed since, is in its owner's map after N timesteps (and after fewer,
\* holding what is left of N) and is absent after N + 1 (and after more).
C9_PresentAfterN_AbsentAfterNPlus1 ==
    \A p \in Speakers : \A o \in DOMAIN LogOf(p) :
        /\ LogOf(p)[o].steps <= LogOf(p)[o].ttl =>
                /\ o \in DOMAIN MapOf(p)
                /\ MapOf(p)[o].time_to_live = LogOf(p)[o].ttl - LogOf(p)[o].steps
        /\ LogOf(p)[o].steps > LogOf(p)[o].ttl => o \notin DOMAIN MapOf(p)

\* C9 witness: one obligation is still held after exactly N >= 1 timesteps while
\* another is gone after exactly N + 1
C9_Witness ==
    \E p, q \in Speakers : \E o \in DOMAIN LogOf(p) : \E r \in DOMAIN LogOf(q) :
        /\ LogOf(p)[o].ttl >= 1
        /\ LogOf(p)[o].steps = LogOf(p)[o].ttl
        /\ o \in DOMAIN MapOf(p)
        /\ LogOf(q)[r].ttl >= 1
        /\ LogOf(q)[r].steps = LogOf(q)[r].ttl + 1
        /\ r \notin DOMAIN MapOf(q)

\* C10 as stated: an obligation pushed with time_to_live N survives N + 1
\* timestep calls, so it is still in the map after the call that sees 0.
C10_SurvivesNPlus1Calls ==
    \A p \in Speakers : \A o \in DOMAIN LogOf(p) :
        LogOf(p)[o].steps <= LogOf(p)[o].ttl + 1 => o \in DOMAIN MapOf(p)

\* C10 amended: an obligation pushed with time_to_live N survives exactly the N
\* timestep calls that see N, ..., 1; the call that sees 0, the (N+1)-th, expires
\* it and removes it from the map within that same call, at the start of the
\* (N+1)-th step after the push.
C10_RemovedByTheCallThatSeesZero ==
    [][trace'.kind = "step" =>
        \A p \in Speakers : \A o \in DOMAIN MapOf(p) \cap DOMAIN LogOf(p) \cap DOMAIN LogOf(p)' :
            LogOf(p)'[o].steps = LogOf(p)[o].steps + 1 =>
                /\ MapOf(p)[o].time_to_live >= 1 =>
                        /\ o \in DOMAIN MapOf(p)'
                        /\ MapOf(p)'[o].time_to_live = MapOf(p)[o].time_to_live - 1
                /\ MapOf(p)[o].time_to_live = 0 =>
                        /\ o \notin DOMAIN MapOf(p)'
                        /\ LogOf(p)'[o].steps = LogOf(p)'[o].ttl + 1]_vars

\* C10 witness: an obligation pushed with time_to_live 0 is gone after the first
\* timestep call that followed its push
C10_Witness ==
    /\ trace.kind = "step"
    /\ \E p \in Speakers : \E o \in DOMAIN LogOf(p) :
            /\ LogOf(p)[o].ttl = 0
            /\ LogOf(p)[o].steps = 1
            /\ o \notin DOMAIN MapOf(p)
            /\ \E i \in DOMAIN conversation.history :
                    o \in DOMAIN PushedBy(conversation.history[i], p)

RECURSIVE Subtrees(_)
\* a realized tree and every tree below it
Subtrees(tree) == {tree} \cup UNION {Subtrees(tree.parts[i]) : i \in DOMAIN tree.parts}

\* the conversation as the realization attempts of the coming step by `s` see it
SeenBy(s) == [timestep(conversation) EXCEPT !.speaker = s]

\* the node has one OR-group of two alternatives, and `alt` is the only one of
\* the two whose precondition holds in `conv`
OnlyLiveAlternative(node, alt, conv) ==
    /\ Len(node.parts) = 1
    /\ Len(node.parts[1]) = 2
    /\ alt \in SeqToSet(node.parts[1])
    /\ \A c \in SeqToSet(node.parts[1]) :
            check(expander.expander_nodes[c].precondition, conv) <=> c = alt

\* C11: wherever a realized tree holds a node with one OR-group of two
\* alternatives of which exactly one has a true precondition, the group's child
\* is that alternative, whatever the shuffle.
C11_LiveAlternativeIsChosen ==
    [][trace'.made # <<>> =>
        \A t \in Subtrees(trace'.made[1].tree) :
            \A alt \in DOMAIN expander.expander_nodes :
                OnlyLiveAlternative(expander.expander_nodes[t.expander_node], alt,
                                    SeenBy(trace'.made[1].hmove.speaker)) =>
                    /\ t.parts # <<>>
                    /\ \A i \in DOMAIN t.parts : t.parts[i].expander_node = alt]_vars

\* C11 witness: tell_root was realized with alt_a closed and alt_b open, and its
\* child is alt_b
C11_Witness ==
    /\ trace.made # <<>>
    /\ trace.made[1].tree.expander_node = "tell_root"
    /\ expander.expander_nodes["alt_a"].precondition = PreNever
    /\ expander.expander_nodes["alt_b"].precondition = PreAlways
    /\ Len(trace.made[1].tree.parts) = 1
    /\ trace.made[1].tree.parts[1].expander_node = "alt_b"

\* the nodes that declare the dialog move `m`
Declaring(m) ==
    {n \in DOMAIN expander.expander_nodes : m \in expander.expander_nodes[n].dialog_moves}

\* the nodes that list `c` in one of their parts
ParentsOf(c) ==
    {n \in DOMAIN expander.expander_nodes : c \in AllPartChoices(expander.expander_nodes[n])}

\* `c` alone declares the move `m`; its precondition holds in `conv` and its
\* forward chain succeeds; `p` is the one node that lists it as a part
OnlyChildOf(m, c, p, conv) ==
    /\ Declaring(m) = {c}
    /\ check(expander.expander_nodes[c].precondition, conv)
    /\ \A r \in forward_chain(expander, conv, c, 0) : r.kind = "ok"
    /\ ParentsOf(c) = {p}

\* C12: when the only node declaring a move is listed as a part by exactly one
\* parent whose precondition is false, every attempt to realize the move fails
\* with NoNodesSatisfyPreconditions (the attempt is false), although the node's
\* own precondition holds and its forward chain succeeds.
C12_ClosedParentBlocksChild ==
    [][trace'.kind = "step" =>
        \A i \in DOMAIN trace'.attempts :
            LET a == trace'.attempts[i]
                seen == SeenBy(a.speaker)
            IN  \A c, p \in DOMAIN expander.expander_nodes :
                    (/\ a.source # "topic"
                     /\ OnlyChildOf(a.item, c, p, seen)
                     /\ ~check(expander.expander_nodes[p].precondition, seen))
                    => a.result = "false"]_vars

\* C12 witness: both participants were refused "ask", whose only node leaf is
\* open and is a part of the closed node wrap alone
C12_Witness ==
    /\ trace.kind = "step"
    /\ Len(trace.attempts) = 2
    /\ \A i \in 1..2 : trace.attempts[i].item = "ask" /\ trace.attempts[i].result = "false"
    /\ Declaring("ask") = {"leaf"}
    /\ ParentsOf("leaf") = {"wrap"}
    /\ expander.expander_nodes["leaf"].precondition = PreAlways
    /\ expander.expander_nodes["wrap"].precondition = PreNever

\* a node without parts and without an edit-callback
BareNode(n) ==
    /\ expander.expander_nodes[n].parts = <<>>
    /\ expander.expander_nodes[n].edit_historical_move = <<>>

\* the realized move is the node `c` and nothing else: the tree is `c` alone, the
\* addressed topics and the speaker's addressed obligations are the declared sets
\* of `c`, and every other delta is empty
ExactlyTheNode(made, c) ==
    LET h == made.hmove
        mine == h[ObligationsField(h.speaker)]
        others == h[ObligationsField(Not(h.speaker))]
    IN  /\ made.tree = Tree(c, <<>>)
        /\ h.topic_state.addressed = expander.expander_nodes[c].addressed_topics
        /\ h.topic_state.introduced = {}
        /\ mine.addressed = expander.expander_nodes[c].dialog_moves
        /\ mine.pushed = EmptyMap
        /\ others = EmptyObligations

\* the last attempt of the step realized the move `m`
Realized(m) ==
    /\ trace.made # <<>>
    /\ trace.attempts[Len(trace.attempts)].source # "topic"
    /\ trace.attempts[Len(trace.attempts)].item = m

\* C13 as stated: a realized move whose declaring nodes have no parts and no
\* edit-callback is exactly one of these nodes: its declared sets and nothing else.
C13_BareNodeRoundTrip ==
    \A m \in UNION {expander.expander_nodes[n].dialog_moves : n \in DOMAIN expander.expander_nodes} :
        (Realized(m) /\ \A c \in Declaring(m) : BareNode(c)) =>
            \E c \in Declaring(m) : ExactlyTheNode(trace.made[1], c)

\* C13 amended: the same, for declaring nodes that no node lists as a part; a
\* node that is listed as a part is realized embedded in a parent, whose declared
\* sets and other parts the historical move carries as well.
C13_TopLevelBareNodeRoundTrip ==
    \A m \in UNION {expander.expander_nodes[n].dialog_moves : n \in DOMAIN expander.expander_nodes} :
        (Realized(m) /\ \A c \in Declaring(m) : BareNode(c) /\ ParentsOf(c) = {}) =>
            \E c \in Declaring(m) : ExactlyTheNode(trace.made[1], c)

\* C13 witness: "plain" was realized by the top-level node plain, which has no
\* parts, and the historical move addresses its topic and its move only
C13_Witness ==
    /\ Realized("plain")
    /\ BareNode("plain")
    /\ ParentsOf("plain") = {}
    /\ ExactlyTheNode(trace.made[1], "plain")
    /\ trace.made[1].hmove.topic_state.addressed = {"sports"}

\* the step appended a move by a speaker `pursuer` agrees with, satisfying `gm`
StepPerforms(gm) ==
    /\ Len(conversation'.history) = Len(conversation.history) + 1
    /\ LET h == conversation'.history[Len(conversation'.history)]
       IN  /\ gm.pursuer \in {AnyPursuer, h.speaker}
           /\ gm.dialog_move \in
                h.person0_obligations.addressed \cup h.person1_obligations.addressed

\* the one goal of the conversation is of `kind` and holds exactly `sequence`
GoalHolds(kind, sequence) ==
    /\ Len(conversation.goals) = 1
    /\ conversation.goals[1].kind = kind
    /\ conversation.goals[1].sequence = sequence

\* the goal moves a two-entry goal of the conversations can hold
PairsOfGoalMoves ==
    {<<GoalMove(a, "move1"), GoalMove(b, "move2")>> :
        a \in Speakers \cup {AnyPursuer}, b \in Speakers \cup {AnyPursuer}}

C15_EagerLastMoveClears ==
    [][/\ \A pair \in PairsOfGoalMoves :
            (GoalHolds("eager", pair) /\ conversation.history = <<>> /\ StepPerforms(pair[2])) =>
                /\ conversation'.goals[1].sequence = <<>>
                /\ is_satisfied(conversation'.goals[1])
                /\ next_step(conversation'.goals[1]) = <<>>
       /\ GoalHolds("eager", <<>>) =>
                /\ conversation'.goals = conversation.goals
                /\ next_step(conversation'.goals[1]) = <<>>]_vars

\* C15 witness: the first move of the conversation was Person1's move2, made
\* while (Person0, move1) was pending and not satisfied by it, and the eager
\* sequence is empty
C15_Witness ==
    /\ Len(conversation.history) = 1
    /\ GoalHolds("eager", <<>>)
    /\ conversation.history[1].speaker = Person1
    /\ conversation.history[1].person1_obligations.addressed = {"move2"}
    /\ conversation.initiator = Person1

\* every TopicState of the program: the conversation's and each historical move's
TopicStates ==
    {conversation.topic_state}
    \cup {conversation.history[i].topic_state : i \in DOMAIN conversation.history}

\* the topics a node of the registry declares or a TopicState holds
KnownTopics ==
    UNION {expander.expander_nodes[n].addressed_topics : n \in DOMAIN expander.expander_nodes}
    \cup UNION {ts.introduced \cup ts.addressed : ts \in TopicStates}

\* C16: for a topic in the addressed set can_be_addressed, needs_addressing and
\* can_be_introduced are all false, a topic stays in the conversation's
\* addressed set once it is there, and needs_addressing and can_be_introduced
\* are never both true.
C16_AddressedTopicIsClosed ==
    /\ [](\A ts \in TopicStates : \A topic \in KnownTopics :
            /\ topic \in ts.addressed =>
                    /\ ~can_be_addressed(ts, topic)
                    /\ ~needs_addressing(ts, topic)
                    /\ ~can_be_introduced(ts, topic)
            /\ ~(needs_addressing(ts, topic) /\ can_be_introduced(ts, topic)))
    /\ [][conversation.topic_state.addressed \subseteq conversation'.topic_state.addressed]_vars

\* C16 witness: the conversation has addressed a topic that was never
\* introduced, so that only the addressed set keeps it from being introduced
C16_Witness ==
    /\ conversation.history # <<>>
    /\ \E topic \in conversation.topic_state.addressed :
            /\ topic \notin conversation.topic_state.introduced
            /\ ~can_be_introduced(conversation.topic_state, topic)

\* C17: every realization of a move or topic that some node declares ends in a
\* realized tree (the attempt is true) or in NoNodesSatisfyPreconditions (the
\* attempt is false), also on a registry where a node is reachable from itself
\* through its parts.
C17_RealizationTerminates ==
    \A i \in DOMAIN trace.attempts :
        ~Undeclared(trace.attempts[i]) => trace.attempts[i].result \in {"true", "false"}

\* the outcomes step_conversation has for the conversation `conv` taken alone
SoloOutcomes(conv) ==
    UNION {{[conversation |-> out.conv, ret |-> out.ret] :
                out \in step_conversation(expander, conv, lull_move)} :
           lull_move \in LullMoves}

\* while the process runs, every outcome step_conversation has for a
\* conversation taken alone is a possible next step of it beside the other one
SoloOutcomesStayPossible ==
    /\ (~ProcessAborted /\ ~Aborted /\ Len(conversation.history) < MaxHistory) =>
            \A o \in SoloOutcomes(conversation) :
                ENABLED (/\ NextPair
                         /\ other' = other
                         /\ conversation' = o.conversation
                         /\ ret' = o.ret)
    /\ (~ProcessAborted /\ other.ret.kind # "Panic"
            /\ Len(other.conversation.history) < MaxHistory) =>
            \A o \in SoloOutcomes(other.conversation) :
                ENABLED (/\ NextPair
                         /\ other' = o
                         /\ conversation' = conversation
                         /\ ret' = ret)

HasLeafAlternative(n, k, conv) ==
    \E i \in DOMAIN expander.expander_nodes[n].parts[k] :
        LET alt == expander.expander_nodes[n].parts[k][i]
        IN  /\ alt \in DOMAIN expander.expander_nodes
            /\ check(expander.expander_nodes[alt].precondition, conv)
            /\ expander.expander_nodes[alt].parts = <<>>

\* C19: an attempt on a move declared by one top-level node whose precondition
\* holds, and each of whose OR-groups has an alternative that satisfies its
\* precondition and forward-chains successfully, realizes the move, also when
\* another alternative of a group satisfies its precondition and fails to chain.
C19_FailedAlternativeIsPassedOver ==
    [][trace'.kind = "step" =>
        \A i \in DOMAIN trace'.attempts :
            LET a == trace'.attempts[i]
                seen == SeenBy(a.speaker)
            IN  \A n \in DOMAIN expander.expander_nodes :
                    (/\ a.source # "topic"
                     /\ Declaring(a.item) = {n}
                     /\ ParentsOf(n) = {}
                     /\ check(expander.expander_nodes[n].precondition, seen)
                     /\ \A k \in DOMAIN expander.expander_nodes[n].parts :
                            HasLeafAlternative(n, k, seen))
                    => a.result = "true"]_vars

\* the last successful attempt of the step realized the move `m`
RealizedMove(m) ==
    /\ trace.made # <<>>
    /\ trace.attempts # <<>>
    /\ trace.attempts[Len(trace.attempts)].result = "true"
    /\ trace.attempts[Len(trace.attempts)].source # "topic"
    /\ trace.attempts[Len(trace.attempts)].item = m

\* C20: a tree rooted at a parent P that wraps the chosen node C, listed in P's
\* part k, has exactly one child per part of P, in part order: child k is C and
\* every other child j is an alternative of P's part j.
C20_WrapFillsTheOtherParts ==
    \A m \in DOMAIN expander.addressing_move :
        \A c \in Declaring(m) : \A p \in ParentsOf(c) :
            (/\ RealizedMove(m)
             /\ Declaring(m) = {c}
             /\ trace.made[1].tree.expander_node = p)
            => LET tree == trace.made[1].tree
                   parts == expander.expander_nodes[p].parts
               IN  /\ Len(tree.parts) = Len(parts)
                   /\ \A j \in DOMAIN tree.parts :
                        /\ tree.parts[j].expander_node \in SeqToSet(parts[j])
                        /\ c \in SeqToSet(parts[j]) => tree.parts[j].expander_node = c

\* the candidates of an attempt: the nodes that declare its move or topic
Candidates(a) ==
    {n \in DOMAIN expander.expander_nodes :
        IF a.source = "topic"
            THEN a.item \in expander.expander_nodes[n].addressed_topics
            ELSE a.item \in expander.expander_nodes[n].dialog_moves}

\* the candidate is skipped in some shuffle: its precondition is false in
\* `conv` or its forward chain can fail
CanBeSkipped(c, conv) ==
    \/ ~check(expander.expander_nodes[c].precondition, conv)
    \/ \E r \in forward_chain(expander, conv, c, 0) : r.kind = "NoNodesSatisfyPreconditions"

\* the tree is the candidate `c` as a forward chain realizes it in `conv`
ChosenAs(tree, c, conv) ==
    /\ tree.expander_node = c
    /\ check(expander.expander_nodes[c].precondition, conv)
    /\ ResOk(tree.parts) \in forward_chain(expander, conv, c, 0)

\* C21: an attempt on a move or topic fails with NoNodesSatisfyPreconditions
\* only if every declaring candidate was skipped (its precondition false or its
\* forward chain failed) or the chosen one could not be wrapped; a realized
\* tree is, or wraps, a candidate whose precondition holds and whose forward
\* chain succeeded.
C21_CandidatesAreTriedInTurn ==
    [][trace'.kind = "step" =>
        \A i \in DOMAIN trace'.attempts :
            LET a == trace'.attempts[i]
                seen == SeenBy(a.speaker)
            IN  /\ a.result = "false" =>
                    \/ \A c \in Candidates(a) : CanBeSkipped(c, seen)
                    \/ \E c \in Candidates(a) :
                            /\ check(expander.expander_nodes[c].precondition, seen)
                            /\ ParentsOf(c) # {}
                /\ a.result = "true" =>
                    LET tree == trace'.made[1].tree
                    IN  \E c \in Candidates(a) :
                            \/ ChosenAs(tree, c, seen)
                            \/ \E j \in DOMAIN tree.parts : ChosenAs(tree.parts[j], c, seen)]_vars

\* C21 witness: "say" was realized as cand_plain while cand_deep, whose
\* precondition holds, fails to chain and cand_part is closed
C21_Witness ==
    /\ trace.made # <<>>
    /\ trace.made[1].tree.expander_node = "cand_plain"
    /\ expander = ExpanderNew(CandNodes(PreAlways, PreAlways, PreNever, PreNever, PreAlways))

\* the candidate's precondition holds in `conv`, its forward chain succeeds in
\* every shuffle, and no node lists it as a part
SureTopLevelCandidate(c, conv) ==
    /\ check(expander.expander_nodes[c].precondition, conv)
    /\ \A r \in forward_chain(expander, conv, c, 0) : r.kind = "ok"
    /\ ParentsOf(c) = {}

\* C22 as stated: a move with a declaring node that is top-level, has a true
\* precondition and forward-chains successfully is realized in every shuffle,
\* whatever other nodes declare it.
C22_TopLevelCandidateSuffices ==
    [][trace'.kind = "step" =>
        \A i \in DOMAIN trace'.attempts :
            LET a == trace'.attempts[i]
                seen == SeenBy(a.speaker)
            IN  (/\ a.source # "topic"
                 /\ \E c \in Candidates(a) : SureTopLevelCandidate(c, seen))
                => a.result = "true"]_vars

\* C22 amended: the same, provided every other declaring node whose
\* precondition holds is top-level too.
C22_TopLevelCandidatesSuffice ==
    [][trace'.kind = "step" =>
        \A i \in DOMAIN trace'.attempts :
            LET a == trace'.attempts[i]
                seen == SeenBy(a.speaker)
            IN  (/\ a.source # "topic"
                 /\ \E c \in Candidates(a) : SureTopLevelCandidate(c, seen)
                 /\ \A c \in Candidates(a) :
                        check(expander.expander_nodes[c].precondition, seen)
                            => ParentsOf(c) = {})
                => a.result = "true"]_vars

\* C22 witness: "say" was realized while cand_plain was a sure top-level
\* candidate, cand_deep could fail to chain and cand_part was closed
C22_Witness ==
    /\ trace.made # <<>>
    /\ trace.attempts[Len(trace.attempts)].item = "say"
    /\ trace.attempts[Len(trace.attempts)].source = "goal"
    /\ trace.attempts[Len(trace.attempts)].result = "true"
    /\ expander = ExpanderNew(CandNodes(PreAlways, PreAlways, PreNever, PreNever, PreNever))

\* C23: the root of a realized tree is the chosen candidate when no node lists
\* the candidate as a part, and otherwise a node that lists it as a part, whose
\* precondition held and which has the candidate among its children; that
\* parent is not wrapped again, also when it is itself a part of another node.
C23_RootIsCandidateOrItsParent ==
    [][(trace'.kind = "step" /\ trace'.made # <<>>) =>
        LET a == trace'.attempts[Len(trace'.attempts)]
            tree == trace'.made[1].tree
            seen == SeenBy(a.speaker)
        IN  \E c \in Candidates(a) :
                \/ /\ ParentsOf(c) = {}
                   /\ tree.expander_node = c
                \/ /\ ParentsOf(c) # {}
                   /\ tree.expander_node \in ParentsOf(c)
                   /\ check(expander.expander_nodes[tree.expander_node].precondition, seen)
                   /\ \E j \in DOMAIN tree.parts : ChosenAs(tree.parts[j], c, seen)]_vars

\* C23 witness: "say" was realized as cand_part wrapped by holder, and holder,
\* a part of outer, is the root
C23_Witness ==
    /\ trace.made # <<>>
    /\ trace.made[1].tree.expander_node = "holder"
    /\ "holder" \in ParentsOf("cand_part")
    /\ "outer" \in ParentsOf("holder")
    /\ \E j \in DOMAIN trace.made[1].tree.parts :
            trace.made[1].tree.parts[j].expander_node = "cand_part"
    /\ trace.attempts[Len(trace.attempts)].item \in {"say", "matter"}

\* the topics and the obligation-pushes of a node's edit-callback
Retracts(n) ==
    {e.topic : e \in {x \in SeqToSet(expander.expander_nodes[n].edit_historical_move) :
                        x.op = "retract_topic"}}
PushCount(n, o) ==
    Len(SelectSeq(expander.expander_nodes[n].edit_historical_move,
                  LAMBDA e : e.op = "push_others" /\ e.move = o))

RECURSIVE Occurrences(_)
\* the node occurrences of a tree, as a sequence of node names
Occurrences(tree) ==
    LET below[k \in 0..Len(tree.parts)] ==
            IF k = 0 THEN <<>> ELSE below[k - 1] \o Occurrences(tree.parts[k])
    IN  below[Len(tree.parts)] \o <<tree.expander_node>>

RECURSIVE SumOf(_)
SumOf(seq) == IF seq = <<>> THEN 0 ELSE Head(seq) + SumOf(Tail(seq))

\* C24: in the historical move of a tree with root P and children C, a topic
\* that P's callback retracts is absent although P or a child declares it (the
\* children and P's own sets are merged before P's callback runs); a topic P
\* declares and only a child's callback retracts is present (the child's
\* callback runs before P's sets are merged); a topic a child declares and
\* itself retracts is absent; an obligation is pushed once per node occurrence
\* whose callback pushes it; and the declared moves of all occurrences are in
\* the speaker's addressed set and the other participant's is empty.
C24_PostOrderConstruction ==
    \A i \in DOMAIN trace.made :
        LET tree == trace.made[i].tree
            h == trace.made[i].hmove
            root == tree.expander_node
            kids == {tree.parts[j].expander_node : j \in DOMAIN tree.parts}
            occ == Occurrences(tree)
            pushed == h[ObligationsField(Not(h.speaker))].pushed
        IN  /\ \A t \in Retracts(root) : t \notin h.topic_state.addressed
            /\ \A t \in expander.expander_nodes[root].addressed_topics \ Retracts(root) :
                    t \in h.topic_state.addressed
            /\ \A c \in kids :
                    \A t \in expander.expander_nodes[c].addressed_topics \cap Retracts(c) :
                        (t \notin expander.expander_nodes[root].addressed_topics
                         /\ \A d \in kids : expander.expander_nodes[d].parts = <<>>)
                            => t \notin h.topic_state.addressed
            /\ \A o \in DOMAIN pushed :
                    pushed[o].times_pushed = SumOf([k \in DOMAIN occ |-> PushCount(occ[k], o)])
            /\ \A k \in DOMAIN occ :
                    expander.expander_nodes[occ[k]].dialog_moves
                        \subseteq h[ObligationsField(h.speaker)].addressed
            /\ h[ObligationsField(Not(h.speaker))].addressed = {}

\* C24 witness: the tree top[kid, kid] was turned into a move that addresses
\* topic ta alone and pushed "reply" three times
C24_Witness ==
    /\ trace.made # <<>>
    /\ trace.made[1].tree.expander_node = "top"
    /\ Len(trace.made[1].tree.parts) = 2
    /\ trace.made[1].hmove.topic_state.addressed = {"ta"}
    /\ LET h == trace.made[1].hmove
       IN  h[ObligationsField(Not(h.speaker))].pushed["reply"].times_pushed = 3

\* the node has an OR-group without alternatives
HasEmptyGroup(n) ==
    \E k \in DOMAIN expander.expander_nodes[n].parts : expander.expander_nodes[n].parts[k] = <<>>

\* the tree has one child per OR-group of its node's template, in order, each
\* a member of its group whose precondition holds in `conv`
OneChildPerGroup(t, conv) ==
    LET parts == expander.expander_nodes[t.expander_node].parts
    IN  /\ Len(t.parts) = Len(parts)
        /\ \A k \in DOMAIN t.parts :
                /\ t.parts[k].expander_node \in SeqToSet(parts[k])
                /\ check(expander.expander_nodes[t.parts[k].expander_node].precondition, conv)

\* the realized tree is a candidate of the attempt that was not wrapped
Unwrapped(tree, a) ==
    /\ tree.expander_node \in Candidates(a)
    /\ ParentsOf(tree.expander_node) = {}

\* C25: a realized tree that was not wrapped has, at every node, one child per
\* OR-group of the node's template, in declared order, child i being a member
\* of group i whose precondition held; and no attempt realizes a move or topic
\* whose declaring nodes all have an empty OR-group.
C25_OneChildPerGroup ==
    [][trace'.kind = "step" =>
        /\ trace'.made # <<>> =>
            LET a == trace'.attempts[Len(trace'.attempts)]
                tree == trace'.made[1].tree
            IN  /\ Unwrapped(tree, a) =>
                        \A t \in Subtrees(tree) : OneChildPerGroup(t, SeenBy(a.speaker))
                /\ \A t \in Subtrees(tree) : ~HasEmptyGroup(t.expander_node)
        /\ \A i \in DOMAIN trace'.attempts :
                (\A c \in Candidates(trace'.attempts[i]) : HasEmptyGroup(c))
                    => trace'.attempts[i].result # "true"]_vars

\* C25 witness: tell_root was realized two levels deep, as tell_root[alt_b[deep]]
C25_Witness ==
    /\ trace.made # <<>>
    /\ trace.made[1].tree = Tree("tell_root", <<Tree("alt_b", <<Tree("deep", <<>>)>>)>>)

\* C25 witness of the second part: the move declared by a node with an empty
\* OR-group after a part that can be filled was attempted and not realized
C25_HollowWitness ==
    /\ expander = ExpanderNew(HollowNodes(TRUE))
    /\ trace.attempts # <<>>
    /\ trace.attempts[1].item = "void"
    /\ trace.attempts[1].result = "false"

\* C26 as stated: after update_for_move(m), no obligation that m marked as
\* addressed for a participant is in that participant's pushed-obligation map,
\* whatever else m contains.
C26_AddressedIsAbsent ==
    trace.made # <<>> =>
        \A p \in Speakers :
            \A o \in LastMove[ObligationsField(p)].addressed :
                o \notin DOMAIN conversation[SpeakerField(p)].pushed_obligations

\* C26 amended: an obligation that m marked as addressed for a participant and
\* did not push onto the same participant is absent from the participant's
\* map; one that m also pushed onto that participant is present with the
\* urgency and times_pushed of m's push alone, the earlier entry being dropped.
C26_AddressedIsAbsentUnlessPushedAgain ==
    trace.made # <<>> =>
        \A p \in Speakers :
            LET hobl == LastMove[ObligationsField(p)]
                stored == conversation[SpeakerField(p)].pushed_obligations
            IN  \A o \in hobl.addressed :
                    IF o \in DOMAIN hobl.pushed
                        THEN /\ o \in DOMAIN stored
                             /\ stored[o].urgency = hobl.pushed[o].urgency
                             /\ stored[o].times_pushed = hobl.pushed[o].times_pushed
                             /\ stored[o].time_to_live = Max(0, hobl.pushed[o].time_to_live)
                        ELSE o \notin DOMAIN stored

\* C26 witness: the move just made addressed an obligation that an earlier move
\* had pushed onto its speaker, and the speaker's map no longer has it
C26_Witness ==
    /\ trace.made # <<>>
    /\ Len(conversation.history) >= 2
    /\ \E o \in LastMove[ObligationsField(LastMove.speaker)].addressed :
            /\ \E j \in Pushers(LastMove.speaker, o) : j < Len(conversation.history)
            /\ o \notin DOMAIN LastMove[ObligationsField(LastMove.speaker)].pushed
            /\ o \notin DOMAIN conversation[SpeakerField(LastMove.speaker)].pushed_obligations

\* C27: a step's move marks a topic addressed only if the topic was not yet
\* addressed, and introduced only if it was neither introduced nor addressed;
\* so no topic is addressed by two historical moves of a conversation.
C27_TopicsAreMarkedOnce ==
    [][Len(conversation'.history) = Len(conversation.history) + 1 =>
        LET h == conversation'.history[Len(conversation'.history)]
        IN  /\ \A t \in h.topic_state.addressed : can_be_addressed(conversation.topic_state, t)
            /\ \A t \in h.topic_state.introduced : can_be_introduced(conversation.topic_state, t)]_vars

\* the goals have the same types and, where they have one, the same goal move
SameGoals(before, after) ==
    /\ Len(after) = Len(before)
    /\ \A i \in DOMAIN before :
            /\ after[i].kind = before[i].kind
            /\ "goal_move" \in DOMAIN before[i] => after[i].goal_move = before[i].goal_move

\* C28: a goal's made_move sees a conversation without goals whose history,
\* topic state and obligation maps are those before the move; after the update
\* the goal list has the same goals in the same order and the move is the last
\* history entry.
C28_GoalsSeeTheStateBeforeTheMove ==
    [][Len(conversation'.history) = Len(conversation.history) + 1 =>
        LET h == conversation'.history[Len(conversation'.history)]
            seen == SeenBy(h.speaker)
        IN  /\ SameGoals(conversation.goals, conversation'.goals)
            /\ h = trace'.made[1].hmove
            /\ \A i \in DOMAIN conversation.goals :
                    conversation.goals[i].kind = "observer" =>
                        conversation'.goals[i].saw =
                            <<[goals |-> <<>>,
                               history |-> conversation.history,
                               topic_state |-> conversation.topic_state,
                               person0 |-> seen.person0.pushed_obligations,
                               person1 |-> seen.person1.pushed_obligations]>>]_vars

\* C28 witness: the observing goal was notified of a move that changed the
\* topic state and an obligation map, beside another goal, and saw neither
C28_Witness ==
    /\ trace.made # <<>>
    /\ Len(conversation.goals) >= 2
    /\ \E i \in DOMAIN conversation.goals :
            /\ conversation.goals[i].kind = "observer"
            /\ conversation.goals[i].saw # <<>>
            /\ conversation.goals[i].saw[1].goals = <<>>
            /\ conversation.goals[i].saw[1].topic_state # conversation.topic_state
            /\ conversation.goals[i].saw[1].history # conversation.history
            /\ \/ conversation.goals[i].saw[1].person0 # conversation.person0.pushed_obligations
               \/ conversation.goals[i].saw[1].person1 # conversation.person1.pushed_obligations

\* the time_to_live the speaker's obligation of an attempt has when the
\* attempts of the coming step are made
RemainingTTL(a) ==
    SeenBy(a.speaker)[SpeakerField(a.speaker)].pushed_obligations[a.item].time_to_live

\* C29: of two obligations of equal urgency that a speaker attempts in a step,
\* the one with the smaller remaining time_to_live is attempted first.
C29_TiesGoToTheSmallerTTL ==
    [][trace'.kind = "step" =>
        \A i, j \in DOMAIN trace'.attempts :
            LET a == trace'.attempts[i]
                b == trace'.attempts[j]
            IN  (/\ i < j
                 /\ a.source = "obligation" /\ b.source = "obligation"
                 /\ a.speaker = b.speaker
                 /\ a.urgency = b.urgency)
                => RemainingTTL(a) <= RemainingTTL(b)]_vars

\* C29 witness: Person0 attempted owe_hi and then owe_lo, of equal urgency, in
\* one step, owe_hi having been pushed with the smaller time_to_live
C29_Witness ==
    /\ Len(trace.attempts) >= 2
    /\ trace.attempts[1].item = "owe_hi" /\ trace.attempts[1].source = "obligation"
    /\ trace.attempts[2].item = "owe_lo" /\ trace.attempts[2].source = "obligation"
    /\ trace.attempts[1].urgency = trace.attempts[2].urgency
    /\ trace.attempts[1].speaker = Person0 /\ trace.attempts[2].speaker = Person0
    /\ conversation.history = <<>>
    /\ LogOf(Person0)["owe_hi"].ttl < LogOf(Person0)["owe_lo"].ttl

\* the obligations in the move list `p` gets when it is its turn in the coming step
ListedNext(p) ==
    UNION {{moves[i].dialog_move : i \in {j \in DOMAIN moves : moves[j].source = "obligation"}} :
            moves \in get_next_speaker_moves(SeenBy(p))}

\* C30: an obligation whose time_to_live was N when a move (or frame) pushed it,
\* not re-pushed or addressed since, is in its owner's move list in the first N
\* not-done steps after the push and in none after them; with N = 0 it is in
\* no list at all; and only listed obligations are attempted.
C30_ListedForNSteps ==
    [][trace'.kind = "step" =>
        /\ \A p \in Speakers : \A o \in DOMAIN LogOf(p) :
                o \in ListedNext(p) <=> LogOf(p)[o].steps < LogOf(p)[o].ttl
        /\ \A i \in DOMAIN trace'.attempts :
                trace'.attempts[i].source = "obligation" =>
                    /\ trace'.attempts[i].item \in DOMAIN LogOf(trace'.attempts[i].speaker)
                    /\ LogOf(trace'.attempts[i].speaker)[trace'.attempts[i].item].steps
                            < LogOf(trace'.attempts[i].speaker)[trace'.attempts[i].item].ttl]_vars

\* C30 witness: an obligation that a move pushed with a time_to_live of at
\* least 1 has seen one step more than that and is gone from its owner's map
C30_Witness ==
    \E p \in Speakers : \E o \in DOMAIN LogOf(p) :
        /\ Pushers(p, o) # {}
        /\ LogOf(p)[o].ttl >= 1
        /\ LogOf(p)[o].steps = LogOf(p)[o].ttl + 1
        /\ o \notin DOMAIN MapOf(p)

\* C31: in a step whose lull roll succeeded the lull move is attempted first by
\* the participant who is not the step-start speaker and, if that attempt
\* fails, once more by the step-start speaker; a step whose lull roll failed
\* ends done with the marker flipped relative to step start; a step in which
\* both lull attempts failed ends done with the marker on the step-start speaker.
C31_LullGoesToTheOtherFirst ==
    [][trace'.kind = "step" =>
        /\ trace'.lull = "continue" =>
              /\ Len(LullAttempts') \in 1..2
              /\ LullAttempts'[1].speaker = Not(conversation.speaker)
              /\ Len(LullAttempts') = 2 =>
                    /\ LullAttempts'[1].result = "false"
                    /\ LullAttempts'[2].speaker = conversation.speaker
        /\ trace'.lull = "stop" =>
              /\ LullAttempts' = <<>>
              /\ conversation'.done
              /\ conversation'.speaker = Not(conversation.speaker)
        /\ BothLullAttemptsFailed' =>
              /\ conversation'.done
              /\ conversation'.speaker = conversation.speaker]_vars

\* C31 witness: the lull roll succeeded, the participant who is not the
\* step-start speaker could not make the lull move and the step-start speaker
\* then made it
C31_Witness ==
    /\ trace.kind = "step"
    /\ trace.lull = "continue"
    /\ Len(LullAttempts) = 2
    /\ LullAttempts[1].speaker = Not(trace.start_speaker)
    /\ LullAttempts[1].result = "false"
    /\ LullAttempts[2].speaker = trace.start_speaker
    /\ LullAttempts[2].result = "true"
    /\ trace.made # <<>>
    /\ LastMove.speaker = trace.start_speaker

\* the two conversations differ at most in the speaker marker and in done
SameButMarker(a, b) == [a EXCEPT !.speaker = b.speaker, !.done = b.done] = b

\* the last step had an unsuccessful attempt at a move or topic for which the
\* registry holds a candidate with an edit-callback
FailedWithCallbackAtHand ==
    \E i \in DOMAIN trace.attempts :
        /\ trace.attempts[i].result = "false"
        /\ \E c \in Candidates(trace.attempts[i]) :
                expander.expander_nodes[c].edit_historical_move # <<>>

\* C32: the unsuccessful attempts of a step leave no mark. A step that makes
\* no move ends with the conversation as timestep() left it (marker and done
\* aside); a step that makes a move ends with exactly what update_for_move
\* makes of that conversation and the one historical move, whatever attempts
\* failed before it, and the historical move holds only what the callbacks of
\* the realized tree put there.
C32_FailedAttemptLeavesNoMark ==
    [][trace'.kind = "step" =>
        IF trace'.made = <<>>
        THEN SameButMarker(timestep(conversation), conversation')
        ELSE LET hmove == trace'.made[1].hmove
                 before == [timestep(conversation) EXCEPT !.speaker = hmove.speaker]
             IN  /\ conversation' = Flip(update_for_move(before, hmove))
                 /\ hmove \in create_historical(expander, before, trace'.made[1].tree)]_vars

\* C32 witness: a step in which an attempt failed although a candidate with an
\* edit-callback was at hand, and in which a later attempt made a move
C32_Witness ==
    /\ trace.kind = "step"
    /\ trace.made # <<>>
    /\ FailedWithCallbackAtHand

\* the reverse indices as the registry alone determines them
IndicesOf(nodes) ==
    LET moves == UNION {nodes[n].dialog_moves : n \in DOMAIN nodes}
        topics == UNION {nodes[n].addressed_topics : n \in DOMAIN nodes}
        children == UNION {AllPartChoices(nodes[n]) : n \in DOMAIN nodes}
    IN  [expander_nodes |-> nodes,
         addressing_move |->
            [m \in moves |-> {n \in DOMAIN nodes : m \in nodes[n].dialog_moves}],
         addressing_topic |->
            [t \in topics |-> {n \in DOMAIN nodes : t \in nodes[n].addressed_topics}],
         apart_of |->
            [c \in children |-> {n \in DOMAIN nodes : c \in AllPartChoices(nodes[n])}]]

\* C33: after construction and after every insert, remove and extend the three
\* reverse indices are what the registry alone determines; every node an
\* index names as declarer or parent is registered, and no key maps to the
\* empty set.
C33_IndicesFollowTheRegistry ==
    /\ expander = IndicesOf(expander.expander_nodes)
    /\ \A index \in {expander.addressing_move, expander.addressing_topic, expander.apart_of} :
            \A key \in DOMAIN index :
                index[key] # {} /\ index[key] \subseteq DOMAIN expander.expander_nodes

\* C33 witness: "kid" was removed and "alt" registered while the conversation
\* was being stepped, and a registered node still names "kid" as a part
C33_Witness ==
    /\ trace.kind = "step"
    /\ "kid" \notin DOMAIN expander.expander_nodes
    /\ "alt" \in DOMAIN expander.expander_nodes
    /\ "kid" \in DOMAIN expander.apart_of
    /\ "alt" \in DOMAIN expander.apart_of

\* C34: every node identifier in an OR-group of a registered node, and every
\* key of the child-to-parent index, is a registered node.
C34_PartsAreRegistered ==
    /\ \A n \in DOMAIN expander.expander_nodes :
            AllPartChoices(expander.expander_nodes[n]) \subseteq DOMAIN expander.expander_nodes
    /\ DOMAIN expander.apart_of \subseteq DOMAIN expander.expander_nodes

\* the goal move is one the historical move performed: its pursuer agrees with
\* the mover and its move is in an addressed set of the historical move
Hit(gm, h) ==
    /\ gm.pursuer \in {AnyPursuer, h.speaker}
    /\ gm.dialog_move \in h.person0_obligations.addressed \cup h.person1_obligations.addressed

\* the entries of the sequence the historical move did not perform, in order
Remaining(sequence, h) == SelectSeq(sequence, LAMBDA gm : ~Hit(gm, h))

\* C35: after a made_move a GoalSequence holds exactly the entries the move did
\* not perform, in their former order, whichever positions the others had;
\* next_step is the first entry left and is_satisfied holds iff none is left.
C35_SequenceDropsEveryPerformedEntry ==
    trace.kind = "made_move" =>
        \A i \in DOMAIN trace.before :
            trace.before[i].kind = "sequence" =>
                LET g == conversation.goals[i]
                IN  /\ g.kind = "sequence"
                    /\ g.sequence = Remaining(trace.before[i].sequence, LastMove)
                    /\ next_step(g) = IF g.sequence = <<>> THEN <<>> ELSE <<g.sequence[1]>>
                    /\ is_satisfied(g) <=> g.sequence = <<>>

\* C35 witness: one move removed the first and the third entry of a
\* GoalSequence of three and left the second
C35_Witness ==
    /\ trace.kind = "made_move"
    /\ Len(conversation.goals) = 1
    /\ trace.before[1].kind = "sequence"
    /\ Len(trace.before[1].sequence) = 3
    /\ Hit(trace.before[1].sequence[1], LastMove)
    /\ ~Hit(trace.before[1].sequence[2], LastMove)
    /\ Hit(trace.before[1].sequence[3], LastMove)
    /\ conversation.goals[1].sequence = <<trace.before[1].sequence[2]>>

\* the moves of the history that performed the goal move
Hits(gm) == {j \in DOMAIN conversation.history : Hit(gm, conversation.history[j])}

\* C36: a single-move goal is satisfied exactly when some observed move was
\* made by a speaker its pursuer agrees with and has the goal's move in an
\* addressed set (so from the first such move on, and not by a move of the
\* other speaker that has it); it proposes its move iff it is not satisfied.
C36_SingleMoveGoal ==
    \A i \in DOMAIN conversation.goals :
        LET g == conversation.goals[i]
        IN  g.kind = "perform" =>
                /\ g.satisfied <=> Hits(g.goal_move) # {}
                /\ is_satisfied(g) <=> g.satisfied
                /\ next_step(g) = IF g.satisfied THEN <<>> ELSE <<g.goal_move>>

\* C36 witness: Person1 addressed move1 and left the goal (Person0, move1)
\* unsatisfied; Person0's move1 then satisfied it
C36_Witness ==
    /\ trace.kind = "made_move"
    /\ Len(conversation.goals) = 1
    /\ Len(conversation.history) = 2
    /\ conversation.goals[1] = [PerformGoalMove(GoalMove(Person0, "move1")) EXCEPT !.satisfied = TRUE]
    /\ ~trace.before[1].satisfied
    /\ conversation.history[1].speaker = Person1
    /\ "move1" \in conversation.history[1].person1_obligations.addressed
    /\ conversation.history[2].speaker = Person0
    /\ "move1" \in conversation.history[2].person0_obligations.addressed

\* C37: the count of a RepeatGoalMove is the number of observed moves that
\* performed its move (one per move, also when both participants' addressed
\* sets hold it); it proposes its move while the count is below the target,
\* and is satisfied and proposes nothing from the target on, with target 0
\* from creation.
C37_RepeatCountsMoves ==
    \A i \in DOMAIN conversation.goals :
        LET g == conversation.goals[i]
        IN  g.kind = "repeat" =>
                /\ g.reps = Cardinality(Hits(g.goal_move))
                /\ is_satisfied(g) <=> g.reps >= g.max_reps
                /\ next_step(g) = IF g.reps < g.max_reps THEN <<g.goal_move>> ELSE <<>>

\* C37 witness: a target of 2 was reached by two moves, one of which has the
\* move in both participants' addressed sets, after a move that did not count
C37_Witness ==
    /\ trace.kind = "made_move"
    /\ Len(conversation.goals) = 1
    /\ Len(conversation.history) = 3
    /\ conversation.goals[1].kind = "repeat"
    /\ conversation.goals[1].max_reps = 2
    /\ conversation.goals[1].reps = 2
    /\ trace.before[1].reps = 1
    /\ Hits(conversation.goals[1].goal_move) = {2, 3}
    /\ \E j \in 2..3 :
            conversation.goals[1].goal_move.dialog_move \in
                conversation.history[j].person0_obligations.addressed
                \cap conversation.history[j].person1_obligations.addressed

\* the goal `after` is what a made_move of `h` makes of the goal `before`, for
\* the goals that are no conjunction
Follows(after, before, h) ==
    CASE before.kind = "perform" ->
            after = [before EXCEPT !.satisfied = @ \/ Hit(before.goal_move, h)]
      [] before.kind = "repeat" ->
            after = [before EXCEPT !.reps = @ + (IF Hit(before.goal_move, h) THEN 1 ELSE 0)]
      [] before.kind = "sequence" ->
            after = [before EXCEPT !.sequence = Remaining(@, h)]
      [] OTHER -> FALSE

\* the goal moves listed for `s` when it is its turn
ListedGoalMoves(s) ==
    UNION {{moves[i].dialog_move : i \in {j \in DOMAIN moves : moves[j].source = "goal"}} :
            moves \in get_next_speaker_moves(SeenBy(s))}

\* what a goal proposes to `s`: its proposal, if its pursuer agrees with `s`
ProposedTo(g, s) ==
    IF next_step(g) # <<>> /\ next_step(g)[1].pursuer \in {AnyPursuer, s}
        THEN {next_step(g)[1].dialog_move} ELSE {}

\* C38: a conjunction proposes what its first goal proposes whenever that has
\* a proposal, also when the proposal is for the other participant and the
\* second goal has one for this participant, and otherwise what its second
\* goal proposes; each made_move reaches both goals; it is satisfied iff both are.
C38_Conjunction ==
    \A i \in DOMAIN conversation.goals :
        LET g == conversation.goals[i]
        IN  g.kind = "concat" =>
                /\ Len(conversation.goals) = 1 =>
                        \A s \in Speakers :
                            ListedGoalMoves(s) =
                                IF next_step(g.g1) # <<>> THEN ProposedTo(g.g1, s)
                                                          ELSE ProposedTo(g.g2, s)
                /\ is_satisfied(g) <=> (is_satisfied(g.g1) /\ is_satisfied(g.g2))
                /\ trace.kind = "made_move" =>
                        /\ Follows(g.g1, trace.before[i].g1, LastMove)
                        /\ Follows(g.g2, trace.before[i].g2, LastMove)

\* C38 witness: a move changed both goals of a conjunction, and the first
\* goal's proposal for Person1 keeps the second goal's proposal from Person0
C38_Witness ==
    /\ trace.kind = "made_move"
    /\ Len(conversation.goals) = 1
    /\ conversation.goals[1].kind = "concat"
    /\ conversation.goals[1].g1 # trace.before[1].g1
    /\ conversation.goals[1].g2 # trace.before[1].g2
    /\ next_step(conversation.goals[1].g1) # <<>>
    /\ ProposedTo(conversation.goals[1].g1, Person0) = {}
    /\ ProposedTo(conversation.goals[1].g2, Person0) # {}
    /\ ListedGoalMoves(Person0) = {}

\* C39: a goal that was satisfied before a made_move is satisfied after it, and
\* a satisfied goal proposes nothing.
C39_SatisfiedForGood ==
    /\ \A i \in DOMAIN conversation.goals :
            is_satisfied(conversation.goals[i]) => next_step(conversation.goals[i]) = <<>>
    /\ trace.kind = "made_move" =>
            \A i \in DOMAIN trace.before :
                is_satisfied(trace.before[i]) => is_satisfied(conversation.goals[i])

\* C39 witness: a single-move goal that was satisfied was shown a further move
\* by its pursuer that does not have its move
C39_Witness ==
    /\ trace.kind = "made_move"
    /\ Len(conversation.goals) = 1
    /\ trace.before[1].kind = "perform"
    /\ is_satisfied(trace.before[1])
    /\ LastMove.speaker = Person0
    /\ trace.before[1].goal_move = GoalMove(Person0, "move1")
    /\ ~Hit(trace.before[1].goal_move, LastMove)
    /\ is_satisfied(conversation.goals[1])

\* the frames of the list that push the move onto the participant
PushFrames(frames, s, m) ==
    {i \in DOMAIN frames :
        frames[i].kind = "push" /\ frames[i].speaker = s /\ frames[i].dialog_move = m}

\* C40: the conversation new_conversation returns has the initiator as speaker,
\* is not done, has no history, no topics and no per-participant topic ledger;
\* its goals are the goals of the goal-setting frames, one each, in
\* registration order, and each participant owes exactly what the pushing
\* frames pushed, each counted once.
C40_NewConversation ==
    trace.kind = "init" =>
        LET setters == SelectSeq(trace.frames, LAMBDA f : f.kind = "goal")
        IN  /\ conversation.initiator = trace.start_speaker
            /\ conversation.speaker = conversation.initiator
            /\ ~conversation.done
            /\ conversation.history = <<>>
            /\ conversation.topic_state = [introduced |-> {}, addressed |-> {}]
            /\ conversation.goals = [i \in DOMAIN setters |-> setters[i].goal]
            /\ \A s \in Speakers :
                    LET ps == get_speaker_state(conversation, s)
                    IN  /\ ps.topics = EmptyMap
                        /\ \A m \in {"move1", "move2"} :
                                IF PushFrames(trace.frames, s, m) = {}
                                    THEN m \notin DOMAIN ps.pushed_obligations
                                    ELSE /\ m \in DOMAIN ps.pushed_obligations
                                         /\ ps.pushed_obligations[m].times_pushed =
                                                Cardinality(PushFrames(trace.frames, s, m))

\* C40 witness: a conversation started by Person1 on five frames, two of which
\* set different goals and two of which push the same obligation onto Person0
C40_Witness ==
    /\ trace.kind = "init"
    /\ conversation.initiator = Person1
    /\ Len(trace.frames) = 5
    /\ Len(conversation.goals) = 2
    /\ conversation.goals[1] # conversation.goals[2]
    /\ Cardinality(PushFrames(trace.frames, Person0, "move1")) = 2

====
